---------------------------- MODULE Spec2Model ----------------------------
(***************************************************************************)
(* Texas Hold'em engine of superxuu/depu: game_logic/game_engine.py        *)
(* (TexasHoldemGame) and game_logic/player.py (Player, PlayerManager).     *)
(*                                                                         *)
(* A user is identified with the seat it is added at (user u sits at       *)
(* position u).  The engine part keeps the deck and the hands as card      *)
(* counts, and the outcome of HandEvaluator on the randomly shuffled cards *)
(* is a nondeterministic strength per seat at showdown; the cards one by   *)
(* one (deck.py) are the variable cards.                                   *)
(* Wall-clock time is abstracted: a timeout having elapsed is a            *)
(* nondeterministic input of the sweep.                                    *)
(***************************************************************************)
EXTENDS Integers, FiniteSets, Sequences, TLC

VARIABLES
    min_bet,                  \* TexasHoldemGame.min_bet
    deck,                     \* number of cards left in TexasHoldemGame.deck
    community_cards,          \* number of community cards
    pot,
    side_pots,                \* snapshot: sequence of [cap, amount, eligible_count]
    current_bet,
    current_player_position,
    stage,
    acted_positions,
    last_raise_increment,
    showdown_reveal,          \* entries of the reveal list, per user
    winner,                   \* seat of TexasHoldemGame.winner, or None
    connected_players,
    disconnected_players,
    disconnected_times,       \* users with a disconnect timestamp
    spectating_players,
    single_player_waiting,    \* user the wait is armed for, or None
    players,                  \* PlayerManager.players (seats taken)
    dealer_position,          \* PlayerManager.dealer_position
    chips,                    \* Player.chips, per seat
    is_active,
    is_folded,
    player_bet,               \* Player.current_bet, per seat
    total_bet,
    starting_chips,
    last_action,
    hole_cards,               \* number of hole cards, per seat
    hands,                    \* number of successful start_game calls so far
    events,                   \* disconnects, timeouts and roster changes so far
    late_actions,             \* actions and reveals accepted since the hand ended
    lastResult,               \* what the most recent value-returning operation returned
    cards,                    \* the cards one by one: Deck.cards and where each dealt card is
    server,                   \* main.py: where each task of the table stands, last snapshot taken
    evals                     \* HandEvaluator: the hands put before it and what it returned

vars == << min_bet, deck, community_cards, pot, side_pots, current_bet,
           current_player_position, stage, acted_positions,
           last_raise_increment, showdown_reveal, winner,
           connected_players, disconnected_players, disconnected_times,
           spectating_players, single_player_waiting, players,
           dealer_position, chips, is_active, is_folded, player_bet,
           total_bet, starting_chips, last_action, hole_cards, hands,
           events, late_actions, lastResult, cards, server, evals >>

----------------------------------------------------------------------------
(* Bounds of the model *)

MaxChips == 5          \* largest stack a seat is created with
MaxHands == 2          \* hands started on one engine
MaxStrength == 3       \* distinct hand strengths at a showdown
MaxRaiseUnits == 8     \* raise-to amounts offered, in units of the small blind
MaxEvents == 1         \* disconnects, timeouts and roster changes on one engine
MaxLateActions == 1    \* actions and reveals accepted after a hand has ended

Seats == {0, 1, 2, 3}
None == -1

Stages == {"preflop", "flop", "turn", "river", "showdown", "ended"}
Betting == {"preflop", "flop", "turn", "river"}

----------------------------------------------------------------------------
(* The engine state as one record, so that the helpers of the engine can   *)
(* be composed the way the methods call each other.                        *)

Cur ==
    [ min_bet |-> min_bet, deck |-> deck, community_cards |-> community_cards,
      pot |-> pot, side_pots |-> side_pots, current_bet |-> current_bet,
      current_player_position |-> current_player_position, stage |-> stage,
      acted_positions |-> acted_positions,
      last_raise_increment |-> last_raise_increment,
      showdown_reveal |-> showdown_reveal, winner |-> winner,
      connected_players |-> connected_players,
      disconnected_players |-> disconnected_players,
      disconnected_times |-> disconnected_times,
      spectating_players |-> spectating_players,
      single_player_waiting |-> single_player_waiting,
      players |-> players, dealer_position |-> dealer_position,
      chips |-> chips, is_active |-> is_active, is_folded |-> is_folded,
      player_bet |-> player_bet, total_bet |-> total_bet,
      starting_chips |-> starting_chips, last_action |-> last_action,
      hole_cards |-> hole_cards ]

CommitEngine(t) ==
    /\ min_bet' = t.min_bet
    /\ deck' = t.deck
    /\ community_cards' = t.community_cards
    /\ pot' = t.pot
    /\ side_pots' = t.side_pots
    /\ current_bet' = t.current_bet
    /\ current_player_position' = t.current_player_position
    /\ stage' = t.stage
    /\ acted_positions' = t.acted_positions
    /\ last_raise_increment' = t.last_raise_increment
    /\ showdown_reveal' = t.showdown_reveal
    /\ winner' = t.winner
    /\ connected_players' = t.connected_players
    /\ disconnected_players' = t.disconnected_players
    /\ disconnected_times' = t.disconnected_times
    /\ spectating_players' = t.spectating_players
    /\ single_player_waiting' = t.single_player_waiting
    /\ players' = t.players
    /\ dealer_position' = t.dealer_position
    /\ chips' = t.chips
    /\ is_active' = t.is_active
    /\ is_folded' = t.is_folded
    /\ player_bet' = t.player_bet
    /\ total_bet' = t.total_bet
    /\ starting_chips' = t.starting_chips
    /\ last_action' = t.last_action
    /\ hole_cards' = t.hole_cards

\* an operation of the engine alone: the card identities, the tasks of
\* main.py and the evaluator's hands are left as they are
Commit(t) == CommitEngine(t) /\ UNCHANGED << cards, server, evals >>

----------------------------------------------------------------------------
(* Arithmetic helpers *)

RECURSIVE SumOver(_, _)
SumOver(f, S) ==
    IF S = {} THEN 0
    ELSE LET x == CHOOSE y \in S : TRUE IN f[x] + SumOver(f, S \ {x})

RECURSIVE SumAmounts(_)
SumAmounts(ps) ==
    IF ps = << >> THEN 0 ELSE Head(ps).amount + SumAmounts(Tail(ps))

MinOf(S) == CHOOSE x \in S : \A y \in S : x <= y

\* sorted(S): the ascending sequence of the elements of a set of integers
RECURSIVE SortedSeq(_)
SortedSeq(S) ==
    IF S = {} THEN << >> ELSE << MinOf(S) >> \o SortedSeq(S \ {MinOf(S)})

\* Python truthiness of an Optional[int]: None and 0 are both falsy
Truthy(pos) == pos # None /\ pos # 0

----------------------------------------------------------------------------
(* player.py: Player *)

Fold(s, p) ==
    [s EXCEPT !.is_folded[p] = TRUE, !.is_active[p] = FALSE,
              !.last_action[p] = "fold"]

\* Bet with the deduction from the stack forgotten
BetKeepsChips(s, p, amount) ==
    LET a == IF amount > s.chips[p] THEN s.chips[p] ELSE amount
    IN  [s EXCEPT !.player_bet[p] = @ + a, !.total_bet[p] = @ + a]

Bet(s, p, amount) ==
    LET a == IF amount > s.chips[p] THEN s.chips[p] ELSE amount
    IN  [s EXCEPT !.chips[p] = @ - a, !.player_bet[p] = @ + a,
                  !.total_bet[p] = @ + a]

Call(s, p, amount) ==
    Bet([s EXCEPT !.last_action[p] = "call"], p, amount - s.player_bet[p])

RaiseBet(s, p, amount) ==
    Bet([s EXCEPT !.last_action[p] = "raise"], p, amount)

Check(s, p) == [s EXCEPT !.last_action[p] = "check"]

ResetRound(s, p) ==
    [s EXCEPT !.player_bet[p] = 0, !.is_folded[p] = FALSE,
              !.is_active[p] = TRUE]

ResetGame(s, p) ==
    LET r == ResetRound(s, p)
    IN  [r EXCEPT !.hole_cards[p] = 0, !.total_bet[p] = 0,
                  !.starting_chips[p] = r.chips[p], !.last_action[p] = ""]

CanAfford(s, p, amount) == s.chips[p] >= amount

IsAllIn(s, p) == s.chips[p] = 0 /\ ~s.is_folded[p] /\ s.is_active[p]

----------------------------------------------------------------------------
(* player.py: PlayerManager *)

GetActivePlayers(s) == {p \in s.players : s.is_active[p] /\ ~s.is_folded[p]}

GetPlayingPlayers(s) == {p \in GetActivePlayers(s) : ~IsAllIn(s, p)}

\* the element after position cur in the ascending cyclic order of S,
\* or the first element when cur is not in S
NextInOrder(S, cur) ==
    IF cur \notin S THEN MinOf(S)
    ELSE IF \E q \in S : q > cur THEN MinOf({q \in S : q > cur})
    ELSE MinOf(S)

GetNextPlayer(s, current_position) ==
    LET playing == GetPlayingPlayers(s)
        cands == IF playing = {} THEN GetActivePlayers(s) ELSE playing
    IN  IF cands = {} THEN None ELSE NextInOrder(cands, current_position)

\* MoveDealerButton that puts the button on the first seat of the sorted list
MoveDealerButtonToFirst(s) ==
    LET active == GetActivePlayers(s)
    IN  IF active = {} THEN s
        ELSE [s EXCEPT !.dealer_position = MinOf(active)]

MoveDealerButton(s) ==
    LET active == GetActivePlayers(s)
    IN  IF active = {} THEN s
        ELSE [s EXCEPT !.dealer_position = NextInOrder(active, s.dealer_position)]

GetSmallBlindPosition(s) ==
    LET active == GetActivePlayers(s)
    IN  IF active = {} THEN None
        ELSE IF Cardinality(active) = 2 THEN s.dealer_position
        ELSE NextInOrder(active, s.dealer_position)

GetBigBlindPosition(s) ==
    LET active == GetActivePlayers(s)
    IN  IF active = {} THEN None
        ELSE IF Cardinality(active) = 2
             THEN IF MinOf(active) = s.dealer_position
                  THEN CHOOSE q \in active : q # MinOf(active)
                  ELSE MinOf(active)
        ELSE NextInOrder(active, GetSmallBlindPosition(s))

\* PlayerManager.reset_game: Player.reset_game for every seat of the set S
RECURSIVE ManagerResetGame(_, _)
ManagerResetGame(s, S) ==
    IF S = {} THEN s
    ELSE LET p == CHOOSE q \in S : TRUE
         IN  ManagerResetGame(ResetGame(s, p), S \ {p})

----------------------------------------------------------------------------
(* game_engine.py: connectivity *)

GetOnlineActivePlayers(s) ==
    {p \in GetActivePlayers(s) :
        p \in s.connected_players /\ p \notin s.spectating_players}

SetPlayerConnected(s, u) ==
    [s EXCEPT !.connected_players = @ \cup {u},
              !.disconnected_players = @ \ {u},
              !.disconnected_times = @ \ {u}]

SetPlayerDisconnected(s, u) ==
    LET s1 == [s EXCEPT !.connected_players = @ \ {u},
                        !.disconnected_players = @ \cup {u}]
        \* the disconnect time is recorded only for the seat on turn
        s2 == IF u \in s1.players /\ s1.current_player_position = u
              THEN [s1 EXCEPT !.disconnected_times = @ \cup {u}]
              ELSE [s1 EXCEPT !.disconnected_times = @ \ {u}]
        s3 == IF s2.stage # "ended" /\ u \in s2.players /\ ~s2.is_folded[u]
              THEN IF Cardinality(GetActivePlayers(s2)) = 2
                   THEN s2
                   ELSE [s2 EXCEPT !.spectating_players = @ \cup {u}]
              ELSE s2
    IN  IF s3.stage # "ended" /\ u \notin s3.spectating_players
        THEN IF Cardinality(GetOnlineActivePlayers(s3)) = 1
             THEN s3
             ELSE IF u \in s3.players /\ ~s3.is_folded[u]
                  THEN Fold([s3 EXCEPT !.spectating_players = @ \cup {u}], u)
                  ELSE s3
        ELSE s3

HandlePlayerReconnect(s, u) ==
    LET s1 == SetPlayerConnected(s, u)
        s2 == [s1 EXCEPT !.spectating_players = @ \ {u}]
    IN  IF s2.single_player_waiting # None
           /\ Cardinality(GetOnlineActivePlayers(s2)) >= 2
        THEN [s2 EXCEPT !.single_player_waiting = None]
        ELSE s2

----------------------------------------------------------------------------
(* game_engine.py: starting a hand *)

\* showdown_reveal is a list of entries {user_id, nickname, position,
\* hole_cards}; the model keeps how many entries each user has in it
NoReveal == [p \in Seats |-> 0]
RevealOf(S) == [p \in Seats |-> IF p \in S THEN 1 ELSE 0]

\* voluntary_reveal: any(item.get("user_id") == user_id ...)
RevealExists(s, u) == s.showdown_reveal[u] > 0

\* _deal_cards: two cards from the deck to every active seat
DealCards(s) ==
    LET active == GetActivePlayers(s)
    IN  [s EXCEPT !.deck = @ - 2 * Cardinality(active),
                  !.hole_cards = [p \in Seats |->
                                    IF p \in active THEN @[p] + 2 ELSE @[p]]]

PostSmallBlind(s) ==
    LET small_blind_pos == GetSmallBlindPosition(s)
        sb_amount == s.min_bet \div 2
    IN  IF Truthy(small_blind_pos) /\ small_blind_pos \in s.players
        THEN IF CanAfford(s, small_blind_pos, sb_amount)
             THEN LET b == Bet(s, small_blind_pos, sb_amount)
                  IN  [b EXCEPT !.last_action[small_blind_pos] = "sb",
                                !.pot = @ + sb_amount]
             ELSE LET actual == s.chips[small_blind_pos]
                  IN  IF actual > 0
                      THEN LET b == Bet(s, small_blind_pos, actual)
                           IN  [b EXCEPT !.last_action[small_blind_pos] = "sb",
                                         !.pot = @ + actual]
                      ELSE s
        ELSE s

PostBigBlind(s, big_blind_pos) ==
    LET bb_amount == s.min_bet
    IN  IF Truthy(big_blind_pos) /\ big_blind_pos \in s.players
        THEN IF CanAfford(s, big_blind_pos, bb_amount)
             THEN LET b == Bet(s, big_blind_pos, bb_amount)
                  IN  [b EXCEPT !.last_action[big_blind_pos] = "bb",
                                !.pot = @ + bb_amount,
                                !.current_bet = bb_amount,
                                !.last_raise_increment = bb_amount]
             ELSE LET actual == s.chips[big_blind_pos]
                  IN  IF actual > 0
                      THEN LET b == Bet(s, big_blind_pos, actual)
                           IN  [b EXCEPT
                                 !.last_action[big_blind_pos] = "bb",
                                 !.pot = @ + actual,
                                 !.current_bet =
                                    IF @ > actual THEN @ ELSE actual,
                                 !.last_raise_increment =
                                    IF @ = 0 THEN s.min_bet ELSE @]
                      ELSE s
        ELSE s

\* both blind positions are read before either blind is posted
PostBlinds(s) == PostBigBlind(PostSmallBlind(s), GetBigBlindPosition(s))

SetInitialPlayer(s) ==
    LET active_players == GetActivePlayers(s)
        playing_players == {p \in active_players : ~IsAllIn(s, p)}
    IN  IF active_players = {} \/ playing_players = {}
        THEN [s EXCEPT !.current_player_position = None]
        ELSE IF Cardinality(active_players) = 2
        THEN IF s.stage = "preflop"
             THEN [s EXCEPT !.current_player_position =
                                GetSmallBlindPosition(s)]
             ELSE [s EXCEPT !.current_player_position =
                                GetBigBlindPosition(s)]
        ELSE IF s.stage = "preflop"
        THEN [s EXCEPT !.current_player_position =
                           GetNextPlayer(s, GetBigBlindPosition(s))]
        ELSE [s EXCEPT !.current_player_position =
                           GetNextPlayer(s, s.dealer_position)]

\* start_game after its checks; pick is the seat random.choice returns
StartGameBody(s, pick) ==
    LET s1 == [s EXCEPT !.deck = 52, !.community_cards = 0, !.pot = 0,
                        !.side_pots = << >>, !.current_bet = 0,
                        !.stage = "preflop", !.winner = None,
                        !.showdown_reveal = NoReveal,
                        !.spectating_players = {}]
        s2 == ManagerResetGame(s1, s1.players)
        s3 == IF s2.dealer_position \notin GetActivePlayers(s2)
              THEN [s2 EXCEPT !.dealer_position = pick]
              ELSE s2
    IN  SetInitialPlayer(PostBlinds(DealCards(MoveDealerButton(s3))))

\* start_game that looks at the stacks only after it has reset the table
StartGameResetsFirst(s, pick) ==
    LET active_players == GetOnlineActivePlayers(s)
        s1 == [s EXCEPT !.deck = 52, !.community_cards = 0, !.pot = 0,
                        !.side_pots = << >>, !.current_bet = 0,
                        !.stage = "preflop", !.winner = None,
                        !.showdown_reveal = NoReveal,
                        !.spectating_players = {}]
    IN  IF Cardinality(active_players) < 2
        THEN [s |-> s, success |-> FALSE]
        ELSE IF \E p \in active_players : s.chips[p] < s.min_bet
        THEN [s |-> s1, success |-> FALSE]
        ELSE [s |-> StartGameBody(s, pick), success |-> TRUE]

\* start_game: the two checks return False before anything is assigned
StartGameResult(s, pick) ==
    LET active_players == GetOnlineActivePlayers(s)
    IN  IF Cardinality(active_players) < 2
        THEN [s |-> s, success |-> FALSE]
        ELSE IF \E p \in active_players : s.chips[p] < s.min_bet
        THEN [s |-> s, success |-> FALSE]
        ELSE [s |-> StartGameBody(s, pick), success |-> TRUE]

----------------------------------------------------------------------------
(* game_engine.py: pots and settlement *)

\* Layers with every layer counted from zero instead of from the cap below
RECURSIVE LayersFromZero(_, _, _, _)
LayersFromZero(s, active_players, bet_amounts, prev_amount) ==
    IF bet_amounts = << >> THEN << >>
    ELSE LET amount == Head(bet_amounts)
             eligible == {p \in active_players : s.total_bet[p] >= amount}
         IN  << [cap |-> amount, amount |-> amount * Cardinality(eligible),
                 eligible |-> eligible] >>
             \o LayersFromZero(s, active_players, Tail(bet_amounts), amount)

\* the layers of _build_side_pots, each with its set of eligible seats
RECURSIVE Layers(_, _, _, _)
Layers(s, active_players, bet_amounts, prev_amount) ==
    IF bet_amounts = << >> THEN << >>
    ELSE LET amount == Head(bet_amounts)
             eligible == {p \in active_players : s.total_bet[p] >= amount}
             layer_amount == (amount - prev_amount) * Cardinality(eligible)
             rest == Layers(s, active_players, Tail(bet_amounts), amount)
         IN  IF eligible = {} THEN Layers(s, active_players,
                                          Tail(bet_amounts), prev_amount)
             ELSE IF layer_amount > 0
                  THEN << [cap |-> amount, amount |-> layer_amount,
                           eligible |-> eligible] >> \o rest
                  ELSE rest

BuildSidePots(s) ==
    LET active_players == {p \in s.players : ~s.is_folded[p]}
        bet_amounts == SortedSeq({s.total_bet[p] :
                          p \in {q \in active_players : s.total_bet[q] > 0}})
    IN  Layers(s, active_players, bet_amounts, 0)

\* the snapshot _build_side_pots leaves in self.side_pots
SidePotsSnapshot(pots) ==
    [i \in 1..Len(pots) |->
        [cap |-> pots[i].cap, amount |-> pots[i].amount,
         eligible_count |-> Cardinality(pots[i].eligible)]]

UpdateSidePotsSnapshot(s) ==
    [s EXCEPT !.side_pots = SidePotsSnapshot(BuildSidePots(s))]

\* CheckInstantWin that sends the hand to the showdown stage
CheckInstantWinToShowdown(s) ==
    LET active_players == GetActivePlayers(s)
    IN  IF Cardinality(active_players) = 1
        THEN LET winner_player == CHOOSE p \in active_players : TRUE
             IN  [s EXCEPT !.chips[winner_player] = @ + s.pot,
                           !.winner = winner_player,
                           !.stage = "showdown"]
        ELSE s

CheckInstantWin(s) ==
    LET active_players == GetActivePlayers(s)
    IN  IF Cardinality(active_players) = 1
        THEN LET winner_player == CHOOSE p \in active_players : TRUE
             IN  [s EXCEPT !.chips[winner_player] = @ + s.pot,
                           !.winner = winner_player,
                           !.stage = "ended"]
        ELSE s

\* positions of the active seats, starting at the seat after the dealer
SeatOrderFromDealerLeft(s) ==
    LET active == GetActivePlayers(s)
        after == SortedSeq({p \in active : p > s.dealer_position})
        upto == SortedSeq({p \in active : p <= s.dealer_position})
    IN  IF s.dealer_position \in active THEN after \o upto
        ELSE SortedSeq(active)

\* the seats of W in the order of the sequence ordered_positions
OrderedWinners(ordered_positions, W) ==
    SelectSeq(ordered_positions, LAMBDA q : q \in W)

\* the strongest seats among E under compare_hands
WinnersPool(E, strength) ==
    {p \in E : \A q \in E : strength[q] <= strength[p]}

\* share to every winner, one odd chip to each of the first rem winners
SplitAmong(s, amount, W) ==
    LET n == Cardinality(W)
        share == amount \div n
        rem == amount % n
        ordered_winners == OrderedWinners(SeatOrderFromDealerLeft(s), W)
        first == {ordered_winners[i] : i \in 1..rem}
    IN  [s EXCEPT !.chips = [p \in Seats |->
            IF p \in W THEN @[p] + share + (IF p \in first THEN 1 ELSE 0)
            ELSE @[p]]]

\* the pots paid out with every seat still in the hand taken as eligible
\* for every layer
RECURSIVE DistributePotsToAll(_, _, _)
DistributePotsToAll(s, pots, strength) ==
    IF pots = << >> THEN s
    ELSE DistributePotsToAll(
             SplitAmong(s, Head(pots).amount,
                        WinnersPool({p \in s.players : ~s.is_folded[p]},
                                    strength)),
             Tail(pots), strength)

RECURSIVE DistributePots(_, _, _)
DistributePots(s, pots, strength) ==
    IF pots = << >> THEN s
    ELSE LET layer == Head(pots)
             paid == IF Cardinality(layer.eligible) = 1
                     THEN LET ep == CHOOSE p \in layer.eligible : TRUE
                          IN  [s EXCEPT !.chips[ep] = @ + layer.amount]
                     ELSE SplitAmong(s, layer.amount,
                                     WinnersPool(layer.eligible, strength))
         IN  DistributePots(paid, Tail(pots), strength)

\* main_pot_winner: the only eligible seat of the last pot, or the first of
\* its winners in the order from the dealer's left
MainPotWinner(s, pots, strength) ==
    LET last == pots[Len(pots)]
        ordered_winners == OrderedWinners(SeatOrderFromDealerLeft(s),
                               WinnersPool(last.eligible, strength))
    IN  IF Cardinality(last.eligible) = 1
        THEN CHOOSE ep \in last.eligible : TRUE
        ELSE IF ordered_winners = << >> THEN s.winner
        ELSE ordered_winners[1]

\* _determine_winner that returns with nothing resolved
DetermineWinnerUnresolved(s, strength) == s

DetermineWinner(s, strength) ==
    LET active_players == GetOnlineActivePlayers(s)
    IN  IF active_players = {} THEN [s EXCEPT !.stage = "ended"]
        ELSE IF Cardinality(active_players) = 1
        THEN LET winner_player == CHOOSE p \in active_players : TRUE
             IN  [s EXCEPT !.chips[winner_player] = @ + s.pot,
                           !.winner = winner_player,
                           !.stage = "ended"]
        ELSE LET s1 == [s EXCEPT !.showdown_reveal =
                              RevealOf(GetActivePlayers(s))]
                 winners == WinnersPool(active_players, strength)
                 pots == BuildSidePots(s1)
                 s2 == [s1 EXCEPT !.side_pots = SidePotsSnapshot(pots)]
             IN  IF pots = << >>
                 THEN [SplitAmong(s2, s2.pot, winners)
                          EXCEPT !.winner = IF Cardinality(winners) = 1
                                            THEN CHOOSE wp \in winners : TRUE
                                            ELSE @,
                                 !.stage = "ended"]
                 ELSE [DistributePots(s2, pots, strength)
                          EXCEPT !.winner = MainPotWinner(s2, pots, strength),
                                 !.stage = "ended"]

----------------------------------------------------------------------------
(* game_engine.py: turn order and streets *)

\* _check_single_player_and_wait: arms the wait for the only online seat
CheckSinglePlayerAndWait(s) ==
    LET online_active_players == GetOnlineActivePlayers(s)
    IN  IF Cardinality(online_active_players) = 1
           /\ s.single_player_waiting = None
        THEN [s EXCEPT !.single_player_waiting =
                           CHOOSE p \in online_active_players : TRUE]
        ELSE s

\* the prologue shared by _should_advance_stage and _move_to_next_player;
\* the wait is armed exactly when single_player_waiting changes from None
WaitPrologue(s) ==
    LET online_active_players == GetOnlineActivePlayers(s)
        s1 == IF s.single_player_waiting # None
                 /\ Cardinality(online_active_players) >= 2
              THEN [s EXCEPT !.single_player_waiting = None]
              ELSE s
    IN  IF Cardinality(online_active_players) <= 1 /\ s1.stage # "ended"
           /\ s1.single_player_waiting = None
        THEN CheckSinglePlayerAndWait(s1)
        ELSE s1

\* TRUE when the prologue returned early because it armed the wait
ArmedNow(s) ==
    /\ Cardinality(GetOnlineActivePlayers(s)) = 1
    /\ s.stage # "ended"
    /\ s.single_player_waiting = None

\* the seats of _should_advance_stage that still have to act
StillNeedsAction(s) ==
    {p \in GetActivePlayers(s) :
        /\ ~IsAllIn(s, p)
        /\ p \in s.connected_players
        /\ p \notin s.spectating_players}

\* ShouldAdvanceStage that is satisfied once one seat has matched the bet
ShouldAdvanceStageAnyMatched(s) ==
    IF ArmedNow(s) THEN FALSE
    ELSE IF GetActivePlayers(s) = {} THEN TRUE
    ELSE IF StillNeedsAction(s) = {} THEN TRUE
    ELSE IF s.current_bet > 0
         THEN \E p \in StillNeedsAction(s) : ~(s.player_bet[p] < s.current_bet)
         ELSE StillNeedsAction(s) \subseteq s.acted_positions

\* the value _should_advance_stage returns (its state change is WaitPrologue)
ShouldAdvanceStage(s) ==
    IF ArmedNow(s) THEN FALSE
    ELSE IF GetActivePlayers(s) = {} THEN TRUE
    ELSE IF StillNeedsAction(s) = {} THEN TRUE
    ELSE IF s.current_bet > 0
         THEN \A p \in StillNeedsAction(s) : ~(s.player_bet[p] < s.current_bet)
         ELSE StillNeedsAction(s) \subseteq s.acted_positions

\* the while loop of _move_to_next_player
RECURSIVE MoveLoop(_, _, _)
MoveLoop(s, attempts, max_attempts) ==
    IF ~(attempts < max_attempts)
    THEN [s EXCEPT !.current_player_position = None]
    ELSE LET next_player == GetNextPlayer(s, s.current_player_position)
         IN  IF next_player = None
             THEN [s EXCEPT !.current_player_position = None]
             ELSE IF next_player \in s.connected_players
                     /\ next_player \notin s.spectating_players
             THEN [s EXCEPT !.current_player_position = next_player]
             ELSE LET s1 == IF next_player \notin s.connected_players
                            THEN SetPlayerDisconnected(s, next_player)
                            ELSE s
                  IN  MoveLoop([s1 EXCEPT !.current_player_position =
                                              next_player],
                               attempts + 1, max_attempts)

MoveToNextPlayer(s) ==
    LET s1 == WaitPrologue(s)
    IN  IF ArmedNow(s) THEN s1
        ELSE IF s1.current_player_position = None THEN s1
        ELSE MoveLoop(s1, 0, Cardinality(s1.players))

\* _deal_turn with no card burned
DealTurnNoBurn(s) == [s EXCEPT !.deck = @ - 1, !.community_cards = @ + 1]

DealFlop(s) == [s EXCEPT !.deck = @ - 4, !.community_cards = @ + 3]
DealTurn(s) == [s EXCEPT !.deck = @ - 2, !.community_cards = @ + 1]
DealRiver(s) == [s EXCEPT !.deck = @ - 2, !.community_cards = @ + 1]

\* _reset_betting_round with each seat's running total cleared as well
ResetBettingRoundClearsTotals(s) ==
    SetInitialPlayer(
        [s EXCEPT !.player_bet = [p \in Seats |->
                                    IF p \in s.players THEN 0 ELSE @[p]],
                  !.total_bet = [p \in Seats |->
                                    IF p \in s.players THEN 0 ELSE @[p]],
                  !.last_action = [p \in Seats |->
                                    IF p \in s.players THEN "" ELSE @[p]],
                  !.current_bet = 0,
                  !.last_raise_increment = s.min_bet,
                  !.acted_positions = {}])

ResetBettingRound(s) ==
    SetInitialPlayer(
        [s EXCEPT !.player_bet = [p \in Seats |->
                                    IF p \in s.players THEN 0 ELSE @[p]],
                  !.last_action = [p \in Seats |->
                                    IF p \in s.players THEN "" ELSE @[p]],
                  !.current_bet = 0,
                  !.last_raise_increment = s.min_bet,
                  !.acted_positions = {}])

\* RunOut that goes to the showdown with the board as it is
RunOutStops(s) == s

\* the loop of next_stage that deals the remaining streets up to the river
RECURSIVE RunOut(_)
RunOut(s) ==
    IF s.stage = "river" THEN s
    ELSE IF s.stage = "preflop"
         THEN RunOut([DealFlop(s) EXCEPT !.stage = "flop"])
    ELSE IF s.stage = "flop"
         THEN RunOut([DealTurn(s) EXCEPT !.stage = "turn"])
    ELSE RunOut([DealRiver(s) EXCEPT !.stage = "river"])

\* next_stage, called with the stage a betting street
NextStage(s, strength) ==
    LET playing_players == {p \in GetActivePlayers(s) : ~IsAllIn(s, p)}
    IN  IF s.stage = "river"
        THEN DetermineWinner([s EXCEPT !.stage = "showdown"], strength)
        ELSE LET s1 == IF s.stage = "preflop"
                       THEN [DealFlop(s) EXCEPT !.stage = "flop"]
                       ELSE IF s.stage = "flop"
                       THEN [DealTurn(s) EXCEPT !.stage = "turn"]
                       ELSE [DealRiver(s) EXCEPT !.stage = "river"]
             IN  IF playing_players = {}
                 THEN DetermineWinner(
                          [RunOut(s1) EXCEPT !.stage = "showdown"], strength)
                 ELSE ResetBettingRound(s1)

----------------------------------------------------------------------------
(* game_engine.py: player actions *)

Result(s, success, message, min_to) ==
    [s |-> s, success |-> success, message |-> message, min_to |-> min_to]

\* acted_positions.add for a seat that is neither all-in nor folded
RecordActed(s, p) ==
    IF ~IsAllIn(s, p) /\ ~s.is_folded[p]
    THEN [s EXCEPT !.acted_positions = @ \cup {p}]
    ELSE s

\* ProcessFold that leaves the seat on turn as it is when the hand ends
ProcessFoldKeepsTurn(s, p) ==
    Result(CheckInstantWin(Fold(s, p)), TRUE, "fold", 0)

ProcessFold(s, p) ==
    LET s1 == CheckInstantWin(Fold(s, p))
    IN  Result(IF s1.stage = "ended"
               THEN [s1 EXCEPT !.current_player_position = None]
               ELSE s1,
               TRUE, "fold", 0)

\* ProcessCheck that tags the seat before it looks at what the seat owes
ProcessCheckTagsFirst(s, p) ==
    IF s.player_bet[p] < s.current_bet
    THEN Result(Check(s, p), FALSE, "must call or raise", 0)
    ELSE Result(CheckInstantWin(RecordActed(Check(s, p), p)),
                TRUE, "check", 0)

ProcessCheck(s, p) ==
    IF s.player_bet[p] < s.current_bet
    THEN Result(s, FALSE, "must call or raise", 0)
    ELSE Result(CheckInstantWin(RecordActed(Check(s, p), p)),
                TRUE, "check", 0)

ProcessCall(s, p) ==
    LET call_amount == s.current_bet - s.player_bet[p]
    IN  IF call_amount <= 0
        THEN Result(s, FALSE, "nothing to call", 0)
        ELSE IF ~CanAfford(s, p, call_amount)
        THEN LET actual_amount == s.chips[p]
                 s1 == Bet(s, p, actual_amount)
             IN  Result(CheckInstantWin([s1 EXCEPT !.pot = @ + actual_amount]),
                        TRUE, "all in", 0)
        ELSE LET s1 == Call(s, p, s.current_bet)
                 s2 == RecordActed([s1 EXCEPT !.pot = @ + call_amount], p)
             IN  Result(CheckInstantWin(UpdateSidePotsSnapshot(s2)),
                        TRUE, "call", 0)

\* the smallest raise-to the engine accepts from a seat that stays off all-in
MinTargetTotalBet(s, p) ==
    LET call_amount == s.current_bet - s.player_bet[p]
        min_raise_amount == call_amount + s.last_raise_increment
    IN  s.player_bet[p] + min_raise_amount

RaiseIsAllIn(s, p, amount) == (amount - s.player_bet[p]) >= s.chips[p]

ProcessRaise(s, p, amount) ==
    LET call_amount == s.current_bet - s.player_bet[p]
        min_target_total_bet == MinTargetTotalBet(s, p)
        actual_raise_amount == amount - s.player_bet[p]
        is_all_in == RaiseIsAllIn(s, p, amount)
        raise_increment == actual_raise_amount - call_amount
    IN  IF amount <= s.current_bet
        THEN Result(s, FALSE, "raise must exceed current bet", 0)
        ELSE IF ~CanAfford(s, p, actual_raise_amount)
        THEN Result(s, FALSE, "insufficient chips", 0)
        ELSE IF ~is_all_in /\ amount < min_target_total_bet
        THEN Result(s, FALSE, "raise below minimum", min_target_total_bet)
        ELSE LET s1 == RaiseBet(s, p, actual_raise_amount)
                 s2 == [s1 EXCEPT
                          !.pot = @ + actual_raise_amount,
                          !.current_bet = amount,
                          !.last_raise_increment =
                              IF ~is_all_in THEN raise_increment ELSE @,
                          !.acted_positions = {p}]
             IN  Result(CheckInstantWin(UpdateSidePotsSnapshot(s2)),
                        TRUE, "raise", 0)

ProcessAction(s, p, action, amount) ==
    IF action = "fold" THEN ProcessFold(s, p)
    ELSE IF action = "check" THEN ProcessCheck(s, p)
    ELSE IF action = "call" THEN ProcessCall(s, p)
    ELSE IF action = "raise" THEN ProcessRaise(s, p, amount)
    ELSE Result(s, FALSE, "invalid action", 0)

\* what player_action does after a successful _process_action
AfterAction(s, strength) ==
    IF s.stage = "ended" THEN s
    ELSE LET should_advance == ShouldAdvanceStage(s)
             s1 == WaitPrologue(s)
         IN  IF s1.single_player_waiting # None THEN s1
             ELSE IF should_advance THEN NextStage(s1, strength)
             ELSE MoveToNextPlayer(s1)

PlayerActionResult(s, u, action, amount, strength) ==
    IF u \notin s.players \/ u # s.current_player_position
    THEN Result(s, FALSE, "not the current player", 0)
    ELSE IF s.is_folded[u]
    THEN Result(s, FALSE, "player has folded", 0)
    ELSE LET r == ProcessAction(s, u, action, amount)
         IN  IF r.success
             THEN Result(AfterAction(r.s, strength), TRUE, r.message, 0)
             ELSE r

----------------------------------------------------------------------------
(* game_engine.py: timeout sweep, single-player decision, reveal, roster *)

\* the "ordinary timeout" branch: check when nothing is bet, else fold
OrdinaryTimeout(s, cp) ==
    MoveToNextPlayer(IF s.current_bet = 0 THEN Check(s, cp) ELSE Fold(s, cp))

\* grace_over: more than 5 seconds have passed since the recorded disconnect
AutoFoldTimeoutPlayers(s, grace_over) ==
    LET cp == s.current_player_position
    IN  IF ~(Truthy(cp) /\ cp \in s.players) THEN s
        ELSE IF cp \in s.disconnected_players
        THEN IF cp \in s.disconnected_times
             THEN IF grace_over THEN MoveToNextPlayer(Fold(s, cp)) ELSE s
             ELSE OrdinaryTimeout(s, cp)
        ELSE LET s1 == SetPlayerDisconnected(s, cp)
             IN  IF cp \in s1.disconnected_times
                 THEN s1     \* the timestamp was taken just now
                 ELSE OrdinaryTimeout(s1, cp)

RECURSIVE ResetRoundAll(_, _)
ResetRoundAll(s, S) ==
    IF S = {} THEN s
    ELSE LET p == CHOOSE q \in S : TRUE
             r == ResetRound(s, p)
         IN  ResetRoundAll([r EXCEPT !.player_bet[p] = 0, !.total_bet[p] = 0],
                           S \ {p})

TerminateGameInsufficientPlayers(s) ==
    LET online_active_players == GetOnlineActivePlayers(s)
        s1 == IF Cardinality(online_active_players) = 1
              THEN LET remaining_player ==
                           CHOOSE p \in online_active_players : TRUE
                   IN  [s EXCEPT !.chips[remaining_player] = @ + s.pot,
                                 !.winner = remaining_player]
              ELSE [s EXCEPT !.winner = None]
        s2 == [s1 EXCEPT !.stage = "ended",
                         !.current_player_position = None,
                         !.pot = 0, !.side_pots = << >>]
    IN  ResetRoundAll(s2, s2.players)

HandleSinglePlayerDecision(s, u, decision) ==
    IF s.single_player_waiting = None THEN Result(s, FALSE, "", 0)
    ELSE IF u \notin s.connected_players THEN Result(s, FALSE, "", 0)
    ELSE IF decision = "continue"
    THEN Result([s EXCEPT !.single_player_waiting = None], TRUE, "continue", 0)
    ELSE IF decision = "end"
    THEN Result(TerminateGameInsufficientPlayers(
                    [s EXCEPT !.single_player_waiting = None]),
                TRUE, "end", 0)
    ELSE Result(s, FALSE, "", 0)

\* main.py, check_timeout_loop: once the grace window of an armed wait has
\* run out, the loop submits 'end' for the seat the wait is armed for
GraceExpiry(s) ==
    IF s.single_player_waiting = None THEN s
    ELSE HandleSinglePlayerDecision(s, s.single_player_waiting, "end").s

\* voluntary_reveal without the check for an existing entry
VoluntaryRevealAppends(s, u) ==
    IF s.stage \notin {"showdown", "ended"} THEN Result(s, FALSE, "", 0)
    ELSE IF u \notin s.players THEN Result(s, FALSE, "", 0)
    ELSE Result([s EXCEPT !.showdown_reveal[u] = @ + 1], TRUE, "", 0)

\* voluntary_reveal(user_id)
VoluntaryReveal(s, u) ==
    IF s.stage \notin {"showdown", "ended"} THEN Result(s, FALSE, "", 0)
    ELSE IF u \notin s.players THEN Result(s, FALSE, "", 0)
    ELSE IF RevealExists(s, u) THEN Result(s, TRUE, "", 0)
    ELSE Result([s EXCEPT !.showdown_reveal[u] = @ + 1], TRUE, "", 0)

MaxPlayers == 10

\* add_player(u, nickname, chips, position u)
AddPlayerResult(s, u, c) ==
    IF Cardinality(s.players) >= MaxPlayers THEN Result(s, FALSE, "", 0)
    ELSE IF u \in s.players THEN Result(s, FALSE, "", 0)
    ELSE Result([s EXCEPT !.players = @ \cup {u},
                          !.chips[u] = c, !.is_active[u] = TRUE,
                          !.is_folded[u] = FALSE, !.player_bet[u] = 0,
                          !.total_bet[u] = 0, !.starting_chips[u] = 0,
                          !.last_action[u] = "", !.hole_cards[u] = 0,
                          !.connected_players = @ \cup {u}],
                TRUE, "", 0)

\* the fields of a seat nobody sits at
Vacate(s, u) ==
    [s EXCEPT !.players = @ \ {u},
              !.chips[u] = 0, !.is_active[u] = TRUE, !.is_folded[u] = FALSE,
              !.player_bet[u] = 0, !.total_bet[u] = 0,
              !.starting_chips[u] = 0, !.last_action[u] = "",
              !.hole_cards[u] = 0]

RemovePlayerResult(s, u) ==
    IF u \notin s.players THEN Result(s, FALSE, "", 0)
    ELSE Result(Vacate(IF s.stage # "ended" THEN Fold(s, u) ELSE s, u),
                TRUE, "", 0)

----------------------------------------------------------------------------
(* game_engine.py: get_game_state.  hc gives the hole cards of every seat  *)
(* card by card; the fields that depend on the clock or on names           *)
(* (time_remaining, is_timeout, nickname, last_aggressor) are left out.    *)

\* Player.to_dict
PlayerToDict(s, hc, p) ==
    [ user_id |-> p, chips |-> s.chips[p], position |-> p,
      is_active |-> s.is_active[p], is_folded |-> s.is_folded[p],
      current_bet |-> s.player_bet[p], total_bet |-> s.total_bet[p],
      hole_cards |-> hc[p], is_all_in |-> IsAllIn(s, p),
      hand_delta |-> IF s.starting_chips[p] # 0
                     THEN s.chips[p] - s.starting_chips[p] ELSE 0,
      last_action |-> s.last_action[p] ]

\* get_player_connection_status
GetPlayerConnectionStatus(s, u) ==
    IF u \in s.connected_players THEN "online"
    ELSE IF u \in s.disconnected_players THEN "offline"
    ELSE "unknown"

\* the hole-card rule with the cards of a folded seat shown to everybody
ShownHoleCardsOfFolded(s, hc, requesting_user_id, p) ==
    IF requesting_user_id = None THEN hc[p]
    ELSE IF p = requesting_user_id THEN hc[p]
    ELSE IF s.stage = "showdown" \/ s.stage = "ended" THEN hc[p]
    ELSE IF s.is_folded[p] THEN hc[p]
    ELSE << >>

\* the hole cards the snapshot lists for seat p: all of them when no user
\* is given, the user's own, everybody's at SHOWDOWN and ENDED, else none
ShownHoleCards(s, hc, requesting_user_id, p) ==
    IF requesting_user_id = None THEN hc[p]
    ELSE IF p = requesting_user_id THEN hc[p]
    ELSE IF s.stage = "showdown" \/ s.stage = "ended" THEN hc[p]
    ELSE << >>

GetGameState(s, hc, requesting_user_id) ==
    [ stage |-> s.stage,
      community_cards |-> s.community_cards,
      pot |-> s.pot,
      current_bet |-> s.current_bet,
      dealer_position |-> s.dealer_position,
      small_blind_position |-> GetSmallBlindPosition(s),
      big_blind_position |-> GetBigBlindPosition(s),
      small_blind |-> s.min_bet \div 2,
      big_blind |-> s.min_bet,
      current_player_position |-> s.current_player_position,
      players |-> [p \in s.players |->
          [ dict |-> [PlayerToDict(s, hc, p) EXCEPT !.hole_cards =
                         ShownHoleCards(s, hc, requesting_user_id, p)],
            connection_status |-> GetPlayerConnectionStatus(s, p) ]],
      winner |-> IF s.winner # None
                 THEN << PlayerToDict(s, hc, s.winner) >> ELSE << >>,
      side_pots |-> s.side_pots,
      last_raise_increment |-> s.last_raise_increment,
      showdown_reveal |->
          [u \in {p \in Seats : s.showdown_reveal[p] > 0} |-> hc[u]],
      single_player_waiting |-> s.single_player_waiting,
      acted_positions |-> s.acted_positions ]

\* hole cards for the seats that hold cards: seat p holds cards 2p and 2p+1
SomeHoleCards(s) ==
    [p \in Seats |-> IF s.hole_cards[p] = 0 THEN << >>
                     ELSE << 2 * p, 2 * p + 1 >>]

----------------------------------------------------------------------------
(* deck.py and card.py: the cards one by one.  A card is a number          *)
(* 0..DeckSize-1 (card k is rank k % 13 of suit k \div 13); the state of   *)
(* the cards is a record with Deck.cards, every seat's Player.hole_cards,  *)
(* the community cards and the cards burned (which the code drops).  The   *)
(* seats of this part are the positions 0..MaxPlayers-1.                   *)

DeckSize == 52
MaxShuffle == 3        \* orders random.shuffle is taken to produce: 0..MaxShuffle

DeckSeats == 0..(MaxPlayers - 1)

\* Deck.__init__ / the first half of Deck.reset: the 52 cards, suit by suit
NewDeck == [i \in 1..DeckSize |-> i - 1]

\* random.shuffle: some permutation of the list; order k cuts the list
\* after 7k cards and, for odd k, turns it over as well
Shuffle(d, k) ==
    [i \in 1..Len(d) |->
        LET j == IF k % 2 = 1 THEN Len(d) + 1 - i ELSE i
        IN  d[((j - 1 + 7 * k) % Len(d)) + 1]]

\* Deck.reset
DeckReset(k) == Shuffle(NewDeck, k)

\* Deck.deal without taking the cards dealt out of the deck
DealLeaves(d, num_cards) ==
    IF num_cards > Len(d)
    THEN [ok |-> FALSE, dealt |-> << >>, cards |-> d]
    ELSE [ok |-> TRUE, dealt |-> SubSeq(d, 1, num_cards), cards |-> d]

\* Deck.deal: ok is FALSE where the code raises ValueError
Deal(d, num_cards) ==
    IF num_cards > Len(d)
    THEN [ok |-> FALSE, dealt |-> << >>, cards |-> d]
    ELSE [ok |-> TRUE, dealt |-> SubSeq(d, 1, num_cards),
          cards |-> SubSeq(d, num_cards + 1, Len(d))]

CardsConstructed ==
    [ deck |-> NewDeck,
      hole_cards |-> [p \in DeckSeats |-> << >>],
      community_cards |-> << >>,
      burned |-> << >>,
      dealt_in |-> {},
      stage |-> "preflop",
      failed |-> FALSE ]

\* Player.receive_cards(deck.deal(2)); once deal has raised nothing more runs
ReceiveCards(c, p) ==
    LET r == Deal(c.deck, 2)
    IN  IF c.failed THEN c
        ELSE IF ~r.ok THEN [c EXCEPT !.failed = TRUE]
        ELSE [c EXCEPT !.deck = r.cards, !.hole_cards[p] = @ \o r.dealt]

\* deck.deal_one() whose card is dropped
BurnCard(c) ==
    LET r == Deal(c.deck, 1)
    IN  IF c.failed THEN c
        ELSE IF ~r.ok THEN [c EXCEPT !.failed = TRUE]
        ELSE [c EXCEPT !.deck = r.cards, !.burned = @ \o r.dealt]

\* community_cards.extend(deck.deal(n))
ExtendCommunity(c, n) ==
    LET r == Deal(c.deck, n)
    IN  IF c.failed THEN c
        ELSE IF ~r.ok THEN [c EXCEPT !.failed = TRUE]
        ELSE [c EXCEPT !.deck = r.cards, !.community_cards = @ \o r.dealt]

\* _deal_cards over the active seats in the order of the player list
RECURSIVE DealCardsTo(_, _)
DealCardsTo(c, active_players) ==
    IF active_players = << >> THEN c
    ELSE DealCardsTo(ReceiveCards(c, Head(active_players)),
                     Tail(active_players))

CardsDealFlop(c) == ExtendCommunity(BurnCard(c), 3)
CardsDealTurn(c) == ExtendCommunity(BurnCard(c), 1)
CardsDealRiver(c) == ExtendCommunity(BurnCard(c), 1)

\* start_game as far as the cards go: deck.reset(), community_cards.clear(),
\* reset_game (hole_cards.clear()), _deal_cards; S are the seats at the table
CardsStartGame(c, S, k) ==
    DealCardsTo([c EXCEPT !.deck = DeckReset(k),
                          !.community_cards = << >>,
                          !.burned = << >>,
                          !.hole_cards = [p \in DeckSeats |-> << >>],
                          !.dealt_in = S,
                          !.stage = "preflop"],
                SortedSeq(S))

\* next_stage as far as the cards go, the street going on afterwards
CardsNextStage(c) ==
    IF c.stage = "preflop" THEN [CardsDealFlop(c) EXCEPT !.stage = "flop"]
    ELSE IF c.stage = "flop" THEN [CardsDealTurn(c) EXCEPT !.stage = "turn"]
    ELSE IF c.stage = "turn" THEN [CardsDealRiver(c) EXCEPT !.stage = "river"]
    ELSE IF c.stage = "river" THEN [c EXCEPT !.stage = "ended"]
    ELSE c

\* next_stage with nobody left to act: the board is dealt up to the river
\* and the hand goes to the showdown
RECURSIVE CardsRunOut(_)
CardsRunOut(c) ==
    IF c.stage \in {"preflop", "flop", "turn"}
    THEN CardsRunOut(CardsNextStage(c))
    ELSE [c EXCEPT !.stage = "ended"]

----------------------------------------------------------------------------
(* main.py: the tasks that work on the engine of one table.  They are      *)
(* coroutines of one event loop: a task runs from one await to the next    *)
(* without any other task running, and the engine never awaits.  A step    *)
(* of a task below is the code between two awaits.                         *)

\* ws[u]: where the websocket task of user u stands; loop: where
\* check_timeout_loop stands; delayed: users whose
\* check_single_player_after_delay task is asleep; snapshot: the result of
\* get_game_state() when the step just taken called it, else << >>
ServerStarted ==
    [ ws |-> [u \in Seats |-> "receive"],
      loop |-> "sleep",
      delayed |-> {},
      snapshot |-> << >>,
      steps |-> 0 ]

\* game.get_game_state() as main.py calls it, without a user
Snapshot(s) == << GetGameState(s, SomeHoleCards(s), None) >>

\* handle_game_action: the checks that come before game.player_action
GameActionChecked(s, u, action, amount) ==
    /\ action \in {"fold", "check", "call", "raise"}
    /\ ~(action = "raise" /\ amount <= s.current_bet)
    /\ s.current_player_position # None
    /\ s.current_player_position \in s.players
    /\ u = s.current_player_position
    /\ s.stage \notin {"showdown", "ended"}
    /\ ~s.is_folded[u]

\* the disconnect handler put to sleep between its two engine calls
DisconnectHandlerSuspended(s, u) == SetPlayerDisconnected(s, u)

\* websocket disconnect: set_player_disconnected, then _move_to_next_player
\* when the user who left is the seat on turn
DisconnectHandler(s, u) ==
    LET s1 == SetPlayerDisconnected(s, u)
    IN  IF /\ Truthy(s1.current_player_position)
           /\ u \in s1.players
           /\ u = s1.current_player_position
        THEN MoveToNextPlayer(s1)
        ELSE s1

\* check_single_player_after_delay once its sleep is over
DelayedCheck(s, reconnected) ==
    IF reconnected THEN s
    ELSE IF Cardinality(GetOnlineActivePlayers(s)) = 1
    THEN CheckSinglePlayerAndWait(s)
    ELSE s

----------------------------------------------------------------------------
(* game_logic/hand_evaluator.py and card.py.  A card is one of the numbers *)
(* 0..51 of Deck.__init__ (suit by suit, '2' up to 'A' inside a suit); a   *)
(* list of cards is a sequence.  None is the empty sequence.               *)

\* Card.value
CardValue(c) == 2 + (c % 13)

\* Card.suit: 0 hearts, 1 diamonds, 2 clubs, 3 spades
CardSuit(c) == c \div 13

\* HandEvaluator.HAND_RANKS
HAND_RANKS ==
    [ high_card |-> 1, pair |-> 2, two_pair |-> 3, three_of_a_kind |-> 4,
      straight |-> 5, flush |-> 6, full_house |-> 7, four_of_a_kind |-> 8,
      straight_flush |-> 9, royal_flush |-> 10 ]

MaxOf(S) == CHOOSE x \in S : \A y \in S : x >= y

\* sorted(S, reverse=True) of a set of integers
RECURSIVE Descending(_)
Descending(S) ==
    IF S = {} THEN << >> ELSE << MaxOf(S) >> \o Descending(S \ {MaxOf(S)})

ValuesOf(cs) == {CardValue(cs[i]) : i \in 1..Len(cs)}

WithValue(cs, v) == SelectSeq(cs, LAMBDA c : CardValue(c) = v)
WithoutValue(cs, v) == SelectSeq(cs, LAMBDA c : CardValue(c) # v)
WithSuit(cs, su) == SelectSeq(cs, LAMBDA c : CardSuit(c) = su)

\* cards[:n]
Prefix(cs, n) == SubSeq(cs, 1, IF n < Len(cs) THEN n ELSE Len(cs))

\* rank_count[rank]
RankCount(cs, v) == Len(WithValue(cs, v))

\* max(cards, key=value): the first card of the highest value
MaxCard(cs) == Head(WithValue(cs, MaxOf(ValuesOf(cs))))

\* sorted(cards, key=value, reverse=True): equal values keep their order
RECURSIVE SortedByValue(_)
SortedByValue(cs) ==
    IF cs = << >> THEN << >>
    ELSE LET v == MaxOf(ValuesOf(cs))
         IN  WithValue(cs, v) \o SortedByValue(WithoutValue(cs, v))

\* the keys of rank_count, a dict filled card by card: the ranks in the
\* order of their first appearance
RECURSIVE RanksInOrder(_)
RanksInOrder(cs) ==
    IF cs = << >> THEN << >>
    ELSE << CardValue(Head(cs)) >>
             \o RanksInOrder(WithoutValue(Tail(cs), CardValue(Head(cs))))

\* the keys of suits, in the order of their first appearance
RECURSIVE SuitsInOrder(_)
SuitsInOrder(cs) ==
    IF cs = << >> THEN << >>
    ELSE << CardSuit(Head(cs)) >>
             \o SuitsInOrder(SelectSeq(Tail(cs),
                     LAMBDA c : CardSuit(c) # CardSuit(Head(cs))))

\* _check_straight; the wheel is returned as 5, 4, 3, 2, A
CheckStraight(cs) ==
    LET values == Descending(ValuesOf(cs))
        found == {i \in 1..(Len(values) - 4) : values[i] - values[i + 4] = 4}
        low_ace_values ==
            Descending({IF v = 14 THEN 1 ELSE v : v \in ValuesOf(cs)})
        low_found ==
            {i \in 1..(Len(low_ace_values) - 4) :
                /\ low_ace_values[i] - low_ace_values[i + 4] = 4
                /\ low_ace_values[i] = 5
                /\ low_ace_values[i + 4] = 1}
        straight_values == << 5, 4, 3, 2, 14 >>
    IN  IF found # {}
        THEN LET i == MinOf(found)
             IN  [k \in 1..5 |-> Head(WithValue(cs, values[i + k - 1]))]
        ELSE IF 14 \in ValuesOf(cs) /\ low_found # {}
        THEN [k \in 1..5 |-> Head(WithValue(cs, straight_values[k]))]
        ELSE << >>

\* _check_straight_flush: the first suit with five cards that hold a straight
CheckStraightFlush(cs) ==
    LET straights ==
            SelectSeq(SuitsInOrder(cs),
                      LAMBDA su : /\ Len(WithSuit(cs, su)) >= 5
                                  /\ CheckStraight(WithSuit(cs, su)) # << >>)
    IN  IF straights = << >> THEN << >>
        ELSE CheckStraight(WithSuit(cs, Head(straights)))

\* _check_royal_flush
CheckRoyalFlush(cs) ==
    LET straight_flush == CheckStraightFlush(cs)
    IN  IF straight_flush = << >> THEN << >>
        ELSE IF Descending(ValuesOf(straight_flush)) = << 14, 13, 12, 11, 10 >>
                /\ Len(straight_flush) = 5
        THEN straight_flush
        ELSE << >>

\* _check_four_of_a_kind
CheckFourOfAKind(cs) ==
    LET fours == SelectSeq(RanksInOrder(cs), LAMBDA v : RankCount(cs, v) >= 4)
    IN  IF fours = << >> THEN << >>
        ELSE LET rank == Head(fours)
                 four_cards == Prefix(WithValue(cs, rank), 4)
                 others == WithoutValue(cs, rank)
             IN  IF others = << >> THEN four_cards
                 ELSE Prefix(four_cards \o << MaxCard(others) >>, 5)

\* _check_full_house: the pair is the first other rank held twice, in the
\* order the ranks appear among the cards
CheckFullHouse(cs) ==
    LET three_ranks ==
            Descending({v \in ValuesOf(cs) : RankCount(cs, v) >= 3})
    IN  IF three_ranks = << >> THEN << >>
        ELSE LET best_three == Head(three_ranks)
                 pair_ranks ==
                     SelectSeq(RanksInOrder(cs),
                               LAMBDA v : v # best_three /\ RankCount(cs, v) >= 2)
             IN  IF pair_ranks = << >> THEN << >>
                 ELSE Prefix(WithValue(cs, best_three), 3)
                          \o Prefix(WithValue(cs, Head(pair_ranks)), 2)

\* _check_flush
CheckFlush(cs) ==
    LET flushes ==
            SelectSeq(SuitsInOrder(cs), LAMBDA su : Len(WithSuit(cs, su)) >= 5)
    IN  IF flushes = << >> THEN << >>
        ELSE Prefix(SortedByValue(WithSuit(cs, Head(flushes))), 5)

\* _check_three_of_a_kind
CheckThreeOfAKind(cs) ==
    LET threes == SelectSeq(RanksInOrder(cs), LAMBDA v : RankCount(cs, v) >= 3)
    IN  IF threes = << >> THEN << >>
        ELSE LET rank == Head(threes)
             IN  Prefix(WithValue(cs, rank), 3)
                     \o Prefix(SortedByValue(WithoutValue(cs, rank)), 2)

\* _check_two_pair
CheckTwoPair(cs) ==
    LET pair_ranks == Descending({v \in ValuesOf(cs) : RankCount(cs, v) >= 2})
    IN  IF Len(pair_ranks) < 2 THEN << >>
        ELSE LET others ==
                     SelectSeq(cs, LAMBDA c : /\ CardValue(c) # pair_ranks[1]
                                              /\ CardValue(c) # pair_ranks[2])
             IN  IF others = << >> THEN << >>
                 ELSE Prefix(WithValue(cs, pair_ranks[1]), 2)
                          \o Prefix(WithValue(cs, pair_ranks[2]), 2)
                          \o << MaxCard(others) >>

\* _check_pair
CheckPair(cs) ==
    LET pair_ranks == {v \in ValuesOf(cs) : RankCount(cs, v) >= 2}
    IN  IF pair_ranks = {} THEN << >>
        ELSE LET best_pair_rank == MaxOf(pair_ranks)
             IN  Prefix(WithValue(cs, best_pair_rank), 2)
                     \o Prefix(SortedByValue(WithoutValue(cs, best_pair_rank)), 3)

\* _check_high_card
CheckHighCard(cs) == Prefix(SortedByValue(cs), 5)

Evaluation(type, strength, cs) ==
    [type |-> type, strength |-> strength, cards |-> cs]

\* _evaluate_insufficient_cards: the strength is a card value here
EvaluateInsufficientCards(hole) ==
    IF Len(hole) = 2
    THEN IF CardValue(hole[1]) = CardValue(hole[2])
         THEN Evaluation("pair", CardValue(hole[1]), hole)
         ELSE Evaluation("high_card", CardValue(MaxCard(hole)),
                         << MaxCard(hole) >>)
    ELSE Evaluation("high_card", 0, Prefix(hole, 1))

\* evaluate_hand(hole_cards, community_cards)
EvaluateHand(hole, community) ==
    LET all_cards == hole \o community
        Found(type, cs) == Evaluation(type, HAND_RANKS[type], cs)
    IN  IF Len(all_cards) < 5 THEN EvaluateInsufficientCards(hole)
        ELSE IF CheckRoyalFlush(all_cards) # << >>
        THEN Found("royal_flush", CheckRoyalFlush(all_cards))
        ELSE IF CheckStraightFlush(all_cards) # << >>
        THEN Found("straight_flush", CheckStraightFlush(all_cards))
        ELSE IF CheckFourOfAKind(all_cards) # << >>
        THEN Found("four_of_a_kind", CheckFourOfAKind(all_cards))
        ELSE IF CheckFullHouse(all_cards) # << >>
        THEN Found("full_house", CheckFullHouse(all_cards))
        ELSE IF CheckFlush(all_cards) # << >>
        THEN Found("flush", CheckFlush(all_cards))
        ELSE IF CheckStraight(all_cards) # << >>
        THEN Found("straight", CheckStraight(all_cards))
        ELSE IF CheckThreeOfAKind(all_cards) # << >>
        THEN Found("three_of_a_kind", CheckThreeOfAKind(all_cards))
        ELSE IF CheckTwoPair(all_cards) # << >>
        THEN Found("two_pair", CheckTwoPair(all_cards))
        ELSE IF CheckPair(all_cards) # << >>
        THEN Found("pair", CheckPair(all_cards))
        ELSE Found("high_card", CheckHighCard(all_cards))

\* sorted([card.value for card in cards], reverse=True): a value as often as
\* it is held
ValuesDescending(cs) ==
    LET sorted == SortedByValue(cs)
    IN  [i \in 1..Len(sorted) |-> CardValue(sorted[i])]

\* _compare_same_hand_type: the first place where the sorted values differ
CompareSameHandType(hand1, hand2) ==
    LET values1 == ValuesDescending(hand1.cards)
        values2 == ValuesDescending(hand2.cards)
        zipped == 1..(IF Len(values1) < Len(values2)
                      THEN Len(values1) ELSE Len(values2))
        differ == {i \in zipped : values1[i] # values2[i]}
    IN  IF differ = {} THEN 0
        ELSE IF values1[MinOf(differ)] > values2[MinOf(differ)] THEN 1
        ELSE -1

\* compare_hands
CompareHands(hand1, hand2) ==
    IF hand1.strength > hand2.strength THEN 1
    ELSE IF hand1.strength < hand2.strength THEN -1
    ELSE CompareSameHandType(hand1, hand2)

\* nothing has been put before the evaluator
NothingEvaluated ==
    [ hole_cards |-> << >>, community_cards |-> << >>,
      player_hands |-> << >>, cmp |-> << >> ]

----------------------------------------------------------------------------
(* The state machine *)

engine == << min_bet, deck, community_cards, pot, side_pots, current_bet,
             current_player_position, stage, acted_positions,
             last_raise_increment, showdown_reveal, winner,
             connected_players, disconnected_players, disconnected_times,
             spectating_players, single_player_waiting, players,
             dealer_position, chips, is_active, is_folded, player_bet,
             total_bet, starting_chips, last_action, hole_cards >>

Returned(op, success, message, min_to) ==
    [op |-> op, success |-> success, message |-> message, min_to |-> min_to]

\* TexasHoldemGame.__init__ for the given big blind
Constructed(mb) ==
    /\ min_bet = mb
    /\ deck = 52
    /\ community_cards = 0
    /\ pot = 0
    /\ side_pots = << >>
    /\ current_bet = 0
    /\ current_player_position = None
    /\ stage = "preflop"
    /\ acted_positions = {}
    /\ last_raise_increment = 0
    /\ showdown_reveal = NoReveal
    /\ winner = None
    /\ disconnected_players = {}
    /\ disconnected_times = {}
    /\ spectating_players = {}
    /\ single_player_waiting = None
    /\ dealer_position = 0
    /\ hands = 0
    /\ events = 0
    /\ late_actions = 0
    /\ lastResult = Returned("init", TRUE, "", 0)
    /\ cards = CardsConstructed
    /\ server = ServerStarted
    /\ evals = NothingEvaluated

\* the seats S have been added with the stacks c, nobody else
Seated(S, c) ==
    /\ players = S
    /\ connected_players = S
    /\ chips = [p \in Seats |-> IF p \in S THEN c[p] ELSE 0]
    /\ is_active = [p \in Seats |-> TRUE]
    /\ is_folded = [p \in Seats |-> FALSE]
    /\ player_bet = [p \in Seats |-> 0]
    /\ total_bet = [p \in Seats |-> 0]
    /\ starting_chips = [p \in Seats |-> 0]
    /\ last_action = [p \in Seats |-> ""]
    /\ hole_cards = [p \in Seats |-> 0]

MinBet == 2
ChipChoices == {MinBet + 1, MaxChips}
Tables == {{0, 1}, {1, 2}, {0, 1, 2}}
HeadsUpTables == {{0, 1}, {1, 2}}
BuyIns == {MinBet}     \* stacks a seat is added with once the table is set up

\* the ranks compare_hands can give the seated players' hands
Strengths ==
    {f \in [Seats -> 1..MaxStrength] : \A p \in Seats \ players : f[p] = 1}
NoStrength == [p \in Seats |-> 1]

Amounts == {k * (min_bet \div 2) : k \in 0..MaxRaiseUnits}
Actions == {"fold", "check", "call", "raise", "bet"}

\* the dealer start_game may pick at random: any seat, when it has to pick
Picks == IF dealer_position \in players THEN {MinOf(players)} ELSE players

\* the action reaches a showdown, so the hands have to be compared
ReachesShowdown(u, action, amount) ==
    LET r == PlayerActionResult(Cur, u, action, amount, NoStrength)
    IN  /\ r.success
        /\ r.s.stage = "ended"
        /\ r.s.showdown_reveal # showdown_reveal

StartGame ==
    /\ hands < MaxHands
    /\ \E pick \in Picks :
          LET r == StartGameResult(Cur, pick)
          IN  /\ r.success
              /\ Commit(r.s)
    /\ hands' = hands + 1
    /\ lastResult' = Returned("start_game", TRUE, "", 0)
    /\ late_actions' = 0
    /\ UNCHANGED events

FirstHand == hands = 0 /\ StartGame

StartGameRejected ==
    /\ \E pick \in Picks :
          LET r == StartGameResult(Cur, pick)
          IN  /\ ~r.success
              /\ Commit(r.s)
    /\ lastResult' = Returned("start_game", FALSE, "", 0)
    /\ UNCHANGED << hands, events, late_actions >>

PlayerAction ==
    /\ stage = "ended" => late_actions < MaxLateActions
    /\ \E u \in players : \E action \in Actions :
       \E amount \in (IF action = "raise" THEN Amounts ELSE {0}) :
       \E strength \in (IF ReachesShowdown(u, action, amount)
                        THEN Strengths ELSE {NoStrength}) :
          LET r == PlayerActionResult(Cur, u, action, amount, strength)
          IN  /\ r.success
              /\ Commit(r.s)
              /\ lastResult' = Returned("player_action", TRUE, r.message, 0)
    /\ late_actions' = IF stage = "ended" THEN late_actions + 1 ELSE late_actions
    /\ UNCHANGED << hands, events >>

\* a refused call is a step while a hand is being played
PlayerActionRejected ==
    /\ hands >= 1
    /\ stage \in Betting
    /\ \E u \in Seats : \E action \in Actions :
       \E amount \in (IF action = "raise" THEN Amounts ELSE {0}) :
          LET r == PlayerActionResult(Cur, u, action, amount, NoStrength)
          IN  /\ ~r.success
              /\ Commit(r.s)
              /\ lastResult' = Returned("player_action", FALSE,
                                        r.message, r.min_to)
    /\ UNCHANGED << hands, events, late_actions >>

SetConnected ==
    /\ \E u \in players :
          /\ SetPlayerConnected(Cur, u) # Cur
          /\ Commit(SetPlayerConnected(Cur, u))
    /\ UNCHANGED << hands, events, late_actions, lastResult >>

SetDisconnected ==
    /\ events < MaxEvents
    /\ \E u \in players : Commit(SetPlayerDisconnected(Cur, u))
    /\ events' = events + 1
    /\ UNCHANGED << hands, late_actions, lastResult >>

Reconnect ==
    /\ \E u \in players :
          /\ HandlePlayerReconnect(Cur, u) # Cur
          /\ Commit(HandlePlayerReconnect(Cur, u))
    /\ UNCHANGED << hands, events, late_actions, lastResult >>

TimeoutSweep ==
    /\ events < MaxEvents
    /\ \E grace_over \in BOOLEAN :
          /\ AutoFoldTimeoutPlayers(Cur, grace_over) # Cur
          /\ Commit(AutoFoldTimeoutPlayers(Cur, grace_over))
    /\ events' = events + 1
    /\ UNCHANGED << hands, late_actions, lastResult >>

SinglePlayerDecision ==
    /\ \E u \in players : \E decision \in {"continue", "end"} :
          LET r == HandleSinglePlayerDecision(Cur, u, decision)
          IN  /\ r.success
              /\ Commit(r.s)
              /\ lastResult' = Returned("handle_single_player_decision",
                                        TRUE, r.message, 0)
    /\ UNCHANGED << hands, events, late_actions >>

Reveal ==
    /\ late_actions < MaxLateActions
    /\ \E u \in players :
          LET r == VoluntaryReveal(Cur, u)
          IN  /\ r.success
              /\ r.s # Cur
              /\ Commit(r.s)
              /\ lastResult' = Returned("voluntary_reveal", TRUE, "", 0)
    /\ late_actions' = late_actions + 1
    /\ UNCHANGED << hands, events >>

AddPlayer ==
    /\ events < MaxEvents
    /\ \E u \in Seats : \E c \in BuyIns :
          LET r == AddPlayerResult(Cur, u, c)
          IN  /\ r.success
              /\ Commit(r.s)
              /\ lastResult' = Returned("add_player", TRUE, "", 0)
    /\ events' = events + 1
    /\ UNCHANGED << hands, late_actions >>

RemovePlayer ==
    /\ events < MaxEvents
    /\ \E u \in Seats :
          LET r == RemovePlayerResult(Cur, u)
          IN  /\ r.success
              /\ Commit(r.s)
              /\ lastResult' = Returned("remove_player", TRUE, "", 0)
    /\ events' = events + 1
    /\ UNCHANGED << hands, late_actions >>

----------------------------------------------------------------------------
(* Spec: one hand on a table of two seats with the large stack or of three *)
(* seats with the small one, with the connectivity operations              *)

Init ==
    /\ Constructed(MinBet)
    /\ \E S \in Tables :
          Seated(S, [p \in Seats |-> IF Cardinality(S) = 2 THEN MaxChips
                                     ELSE MinBet + 1])

Next ==
    \/ FirstHand
    \/ PlayerAction
    \/ SetConnected
    \/ SetDisconnected
    \/ Reconnect
    \/ TimeoutSweep
    \/ SinglePlayerDecision

Spec == Init /\ [][Next]_vars

----------------------------------------------------------------------------
(* SpecBetting: one hand of betting on every table, every seat with one of *)
(* the two stacks                                                          *)

InitBetting ==
    /\ Constructed(MinBet)
    /\ \E S \in Tables : \E c \in [Seats -> ChipChoices] : Seated(S, c)

NextBetting ==
    \/ FirstHand
    \/ PlayerAction

SpecBetting == InitBetting /\ [][NextBetting]_vars

----------------------------------------------------------------------------
(* SpecRefusals: one hand with a disconnect, where the calls the engine    *)
(* refuses are steps too; two seats with the large stack or three seats    *)
(* with exactly the big blind                                              *)

RefusalTables == {{1, 2}, {0, 1, 2}}

InitRefusals ==
    /\ Constructed(MinBet)
    /\ \E S \in RefusalTables :
          Seated(S, [p \in Seats |-> IF Cardinality(S) = 2 THEN MaxChips
                                     ELSE MinBet])

NextRefusals ==
    \/ FirstHand
    \/ PlayerAction
    \/ PlayerActionRejected
    \/ SetDisconnected

SpecRefusals == InitRefusals /\ [][NextRefusals]_vars

----------------------------------------------------------------------------
(* SpecAll: every operation of the engine on a table that starts with two  *)
(* seats, every seat bought in for exactly the big blind                   *)

InitAll ==
    /\ Constructed(MinBet)
    /\ \E S \in HeadsUpTables : \E c \in BuyIns :
          Seated(S, [p \in Seats |-> c])

NextAll ==
    \/ StartGame
    \/ StartGameRejected
    \/ PlayerAction
    \/ SetConnected
    \/ SetDisconnected
    \/ Reconnect
    \/ TimeoutSweep
    \/ SinglePlayerDecision
    \/ Reveal
    \/ AddPlayer
    \/ RemovePlayer

SpecAll == InitAll /\ [][NextAll]_vars

----------------------------------------------------------------------------
(* SpecHeadsUp: the heads-up scenario of test_raise_issue.py               *)

ScenarioMinBet == 10
ScenarioChips == 1000

InitHeadsUp ==
    /\ Constructed(ScenarioMinBet)
    /\ \E S \in HeadsUpTables : Seated(S, [p \in Seats |-> ScenarioChips])

SpecHeadsUp == InitHeadsUp /\ [][NextBetting]_vars

----------------------------------------------------------------------------
(* SpecFour: one hand on a table of four seats, betting only               *)

FourSeats == {0, 1, 2, 3}

InitFour ==
    /\ Constructed(MinBet)
    /\ Seated(FourSeats, [p \in Seats |-> MinBet + 1])

SpecFour == InitFour /\ [][NextBetting]_vars

----------------------------------------------------------------------------
(* SpecStalled: one hand that the players abandon.  Once the periodic loop  *)
(* of main.py has had to act, no player submits an action any more; the    *)
(* loop keeps running its two checks.                                      *)

\* a player's action, submitted before the loop has had to act
ActionBeforeStall == events = 0 /\ PlayerAction

\* check_timeout_loop, second check: the action timeout has elapsed and
\* auto_fold_timeout_players runs
StalledSweep ==
    /\ hands >= 1
    /\ \E grace_over \in BOOLEAN :
          /\ AutoFoldTimeoutPlayers(Cur, grace_over) # Cur
          /\ Commit(AutoFoldTimeoutPlayers(Cur, grace_over))
    /\ events' = IF events < MaxEvents THEN events + 1 ELSE events
    /\ UNCHANGED << hands, late_actions, lastResult >>

\* check_timeout_loop, first check: the grace window of the wait has run out
GraceExpires ==
    /\ hands >= 1
    /\ GraceExpiry(Cur) # Cur
    /\ Commit(GraceExpiry(Cur))
    /\ events' = IF events < MaxEvents THEN events + 1 ELSE events
    /\ UNCHANGED << hands, late_actions, lastResult >>

InitStalled ==
    /\ Constructed(MinBet)
    /\ \E S \in Tables : Seated(S, [p \in Seats |-> MinBet + 1])

NextStalled ==
    \/ FirstHand
    \/ ActionBeforeStall
    \/ StalledSweep
    \/ GraceExpires

SpecStalled ==
    /\ InitStalled
    /\ [][NextStalled]_vars
    /\ WF_vars(StalledSweep)
    /\ WF_vars(GraceExpires)

----------------------------------------------------------------------------
(* SpecDeck: the cards of one table, hand after hand.  Only the cards      *)
(* change: start_game shuffles and deals, next_stage deals the board.      *)

rest_of_table ==
    << engine, hands, events, late_actions, lastResult, server, evals >>

\* start_game: any number of seats from two up to max_players, any shuffle
DeckStartGame ==
    /\ \E n \in 2..MaxPlayers : \E k \in 0..MaxShuffle :
          cards' = CardsStartGame(cards, 0..(n - 1), k)
    /\ UNCHANGED rest_of_table

\* next_stage at the end of a street of a started hand
DeckNextStage ==
    /\ cards.dealt_in # {}
    /\ cards.stage \in Betting
    /\ cards' = CardsNextStage(cards)
    /\ UNCHANGED rest_of_table

\* next_stage when every seat left is all-in
DeckRunOut ==
    /\ cards.dealt_in # {}
    /\ cards.stage \in {"preflop", "flop", "turn"}
    /\ cards' = CardsRunOut(cards)
    /\ UNCHANGED rest_of_table

InitDeck ==
    /\ Constructed(MinBet)
    /\ Seated({}, [p \in Seats |-> 0])

NextDeck == DeckStartGame \/ DeckNextStage \/ DeckRunOut

SpecDeck == InitDeck /\ [][NextDeck]_vars

----------------------------------------------------------------------------
(* SpecServer: one table as main.py runs it.  start_game_in_room seats the *)
(* users from position 1 on; the websocket task of every user, the         *)
(* timeout loop and the delayed single-player checks take their steps in   *)
(* any order.                                                              *)

MaxServerSteps == 4    \* steps at one table in which a task calls the engine

ServerTables == {{1, 2}, {1, 2, 3}}

\* the users auto_fold_timeout_players returns
TimedOutPlayers(s, grace_over) ==
    LET cp == s.current_player_position
    IN  IF ~(Truthy(cp) /\ cp \in s.players) THEN {}
        ELSE IF cp \in s.disconnected_players
        THEN IF cp \in s.disconnected_times
             THEN IF grace_over THEN {cp} ELSE {}
             ELSE IF s.current_bet = 0 THEN {} ELSE {cp}
        ELSE IF cp \in SetPlayerDisconnected(s, cp).disconnected_times
             THEN {}
             ELSE IF s.current_bet = 0 THEN {} ELSE {cp}

\* start_game_in_room: game.start_game() and the snapshot it broadcasts
ServerStartGame ==
    /\ hands = 0
    /\ \E pick \in Picks :
          LET r == StartGameResult(Cur, pick)
          IN  /\ r.success
              /\ CommitEngine(r.s)
              /\ server' = [server EXCEPT !.snapshot = Snapshot(r.s)]
    /\ hands' = 1
    /\ lastResult' = Returned("start_game", TRUE, "", 0)
    /\ UNCHANGED << events, late_actions, cards, evals >>

\* handle_game_action up to the await that confirms the action
WsGameAction ==
    /\ hands >= 1
    /\ server.steps < MaxServerSteps
    /\ \E u \in players : \E action \in Actions :
       \E amount \in (IF action = "raise" THEN Amounts ELSE {0}) :
       \E strength \in (IF ReachesShowdown(u, action, amount)
                        THEN Strengths ELSE {NoStrength}) :
          LET r == PlayerActionResult(Cur, u, action, amount, strength)
          IN  /\ server.ws[u] = "receive"
              /\ GameActionChecked(Cur, u, action, amount)
              /\ CommitEngine(r.s)
              /\ server' = [server EXCEPT
                     !.ws[u] = IF r.success THEN "confirm" ELSE "receive",
                     !.snapshot = << >>,
                     !.steps = @ + 1]
              /\ lastResult' = Returned("player_action", r.success,
                                        r.message, r.min_to)
    /\ UNCHANGED << hands, events, late_actions, cards, evals >>

\* handle_game_action after the confirmation: get_game_state(), broadcast
WsActionBroadcast ==
    /\ \E u \in players :
          /\ server.ws[u] = "confirm"
          /\ server' = [server EXCEPT !.ws[u] = "sent",
                                      !.snapshot = Snapshot(Cur)]
    /\ UNCHANGED << engine, hands, events, late_actions, lastResult, cards,
                    evals >>

\* single_player_decision message: the decision and, accepted, the snapshot
WsDecision ==
    /\ hands >= 1
    /\ server.steps < MaxServerSteps
    /\ \E u \in players : \E decision \in {"continue", "end"} :
          LET r == HandleSinglePlayerDecision(Cur, u, decision)
          IN  /\ server.ws[u] = "receive"
              /\ r.success
              /\ CommitEngine(r.s)
              /\ server' = [server EXCEPT
                     !.ws[u] = IF decision = "end" THEN "ending" ELSE "sent",
                     !.snapshot = Snapshot(r.s),
                     !.steps = @ + 1]
              /\ lastResult' = Returned("handle_single_player_decision",
                                        TRUE, r.message, 0)
    /\ UNCHANGED << hands, events, late_actions, cards, evals >>

\* after the broadcast: handle_game_end (with its own snapshot) for a
\* decision to end and for an action that has ended the hand
WsAfterBroadcast ==
    /\ \E u \in players :
          /\ server.ws[u] \in {"sent", "ending"}
          /\ server' = [server EXCEPT
                 !.ws[u] = "receive",
                 !.snapshot = IF server.ws[u] = "ending" \/ stage = "ended"
                              THEN Snapshot(Cur) ELSE << >>]
    /\ UNCHANGED << engine, hands, events, late_actions, lastResult, cards,
                    evals >>

\* WebSocketDisconnect: the engine calls of the handler, the delayed check
\* it creates and the snapshot it broadcasts
WsDisconnect ==
    /\ hands >= 1
    /\ server.steps < MaxServerSteps
    /\ \E u \in players :
          LET t == DisconnectHandler(Cur, u)
          IN  /\ server.ws[u] # "gone"
              /\ CommitEngine(t)
              /\ server' = [server EXCEPT !.ws[u] = "gone",
                                          !.delayed = @ \cup {u},
                                          !.snapshot = Snapshot(t),
                                          !.steps = @ + 1]
    /\ UNCHANGED << hands, events, late_actions, lastResult, cards, evals >>

\* a new connection of a user who had left: handle_player_reconnect
WsReconnect ==
    /\ \E u \in players :
          /\ server.ws[u] = "gone"
          /\ server.steps < MaxServerSteps
          /\ CommitEngine(HandlePlayerReconnect(Cur, u))
          /\ server' = [server EXCEPT !.ws[u] = "joined", !.snapshot = << >>,
                                      !.steps = @ + 1]
    /\ UNCHANGED << hands, events, late_actions, lastResult, cards, evals >>

\* the state sent to the user who has just connected
WsJoined ==
    /\ \E u \in players :
          /\ server.ws[u] = "joined"
          /\ server' = [server EXCEPT !.ws[u] = "receive",
                                      !.snapshot = Snapshot(Cur)]
    /\ UNCHANGED << engine, hands, events, late_actions, lastResult, cards,
                    evals >>

\* check_single_player_after_delay, five seconds after the disconnect
ServerDelayedCheck ==
    /\ \E u \in server.delayed :
          LET reconnected == server.ws[u] # "gone"
              t == DelayedCheck(Cur, reconnected)
          IN  /\ CommitEngine(t)
              /\ server' = [server EXCEPT
                     !.delayed = @ \ {u},
                     !.snapshot =
                         IF ~reconnected
                            /\ Cardinality(GetOnlineActivePlayers(Cur)) = 1
                         THEN Snapshot(t) ELSE << >>]
    /\ UNCHANGED << hands, events, late_actions, lastResult, cards, evals >>

\* check_timeout_loop: the wait has run out; 'end' for the waiting user and
\* handle_game_end up to its first await
LoopExpiry ==
    /\ server.loop = "sleep"
    /\ server.steps < MaxServerSteps
    /\ single_player_waiting # None
    /\ CommitEngine(GraceExpiry(Cur))
    /\ server' = [server EXCEPT !.loop = "game_end",
                                !.snapshot = Snapshot(GraceExpiry(Cur)),
                                !.steps = @ + 1]
    /\ UNCHANGED << hands, events, late_actions, lastResult, cards, evals >>

\* check_timeout_loop: the action timeout has passed
LoopSweep ==
    /\ hands >= 1
    /\ server.steps < MaxServerSteps
    /\ \E grace_over \in BOOLEAN :
          LET t == AutoFoldTimeoutPlayers(Cur, grace_over)
          IN  /\ CommitEngine(t)
              /\ server' = [server EXCEPT
                     !.loop = "sleep",
                     !.snapshot = IF TimedOutPlayers(Cur, grace_over) # {}
                                  THEN Snapshot(t) ELSE << >>,
                     !.steps = @ + 1]
    /\ UNCHANGED << hands, events, late_actions, lastResult, cards, evals >>

InitServer ==
    /\ Constructed(MinBet)
    /\ \E S \in ServerTables : Seated(S, [p \in Seats |-> MinBet + 1])

NextServer ==
    \/ ServerStartGame
    \/ WsGameAction
    \/ WsActionBroadcast
    \/ WsDecision
    \/ WsAfterBroadcast
    \/ WsDisconnect
    \/ WsReconnect
    \/ WsJoined
    \/ ServerDelayedCheck
    \/ LoopExpiry
    \/ LoopSweep

SpecServer == InitServer /\ [][NextServer]_vars

----------------------------------------------------------------------------
(* SpecEval: HandEvaluator on the hands of two players at a showdown.      *)
(* _determine_winner evaluates every player's hole cards with the board    *)
(* and compares the evaluations two by two.                                *)

\* the card of a value 2..14 in a suit 0..3
CardOf(value, suit) == 13 * suit + value - 2

\* the boards put before the evaluator
EvalBoards ==
    { << CardOf(3, 2), CardOf(4, 3), CardOf(5, 0), CardOf(9, 1), CardOf(13, 2) >>,
      << CardOf(3, 0), CardOf(4, 0), CardOf(5, 0), CardOf(9, 1), CardOf(13, 2) >>,
      << CardOf(10, 1), CardOf(11, 2), CardOf(12, 3), CardOf(13, 0), CardOf(13, 1) >> }

\* the cards the hole cards are taken from
EvalHoleCards ==
    { CardOf(14, 0), CardOf(2, 0), CardOf(6, 0), CardOf(7, 0),
      CardOf(14, 3), CardOf(2, 3), CardOf(6, 3), CardOf(9, 3) }

table_and_cards ==
    << engine, hands, events, late_actions, lastResult, cards, server >>

\* the river has been dealt: two players hold two cards each
ShowdownHands ==
    /\ evals.hole_cards = << >>
    /\ \E community \in EvalBoards :
       \E hole1, hole2 \in SUBSET EvalHoleCards :
          /\ Cardinality(hole1) = 2
          /\ Cardinality(hole2) = 2
          /\ hole1 \cap hole2 = {}
          /\ evals' = [ hole_cards |-> << SortedSeq(hole1), SortedSeq(hole2) >>,
                        community_cards |-> community,
                        player_hands |-> << >>,
                        cmp |-> << >> ]
    /\ UNCHANGED table_and_cards

\* player.evaluate_hand(self.community_cards) for every player
EvaluateHands ==
    /\ evals.hole_cards # << >>
    /\ evals.player_hands = << >>
    /\ evals' = [evals EXCEPT !.player_hands =
                    [i \in 1..Len(evals.hole_cards) |->
                        EvaluateHand(evals.hole_cards[i],
                                     evals.community_cards)]]
    /\ UNCHANGED table_and_cards

\* HandEvaluator.compare_hands on the two evaluations
CompareEvaluations ==
    /\ evals.player_hands # << >>
    /\ evals.cmp = << >>
    /\ evals' = [evals EXCEPT !.cmp =
                    << CompareHands(evals.player_hands[1],
                                    evals.player_hands[2]) >>]
    /\ UNCHANGED table_and_cards

InitEval ==
    /\ Constructed(MinBet)
    /\ Seated({}, [p \in Seats |-> 0])

NextEval == ShowdownHands \/ EvaluateHands \/ CompareEvaluations

SpecEval == InitEval /\ [][NextEval]_vars

TypeOK ==
    /\ stage \in Stages
    /\ winner \in Seats \cup {None}
    /\ pot \in Int
    /\ players \subseteq Seats

----------------------------------------------------------------------------
(* Properties *)

Total(f) == SumOver(f, Seats)

\* the hand in progress is on a betting street and seat p is asked to act
AskedToAct(p) ==
    /\ hands >= 1
    /\ stage \in Betting
    /\ p = current_player_position
    /\ p \in players
    /\ ~is_folded[p]

\* the state start_game has just returned in
JustStarted == lastResult.op = "start_game" /\ lastResult.success

\* the seat a heads-up table has besides seat p
Other(p) == CHOOSE q \in players : q # p

\* C1: chip conservation while betting.  In every state of a started hand
\* whose stage is PREFLOP, FLOP, TURN or RIVER, the chips of all seats plus
\* the pot equal the chips all seats had when the hand started.
ChipConservationWhileBetting ==
    (hands >= 1 /\ stage \in Betting) =>
        Total(chips) + pot = Total(starting_chips)

\* a late street with chips in the pot, a folded seat and a disconnect or
\* timeout handled during the hand
ChipConservationWhileBettingWitness ==
    /\ hands = 1
    /\ stage \in {"turn", "river"}
    /\ pot > MinBet
    /\ events = 1
    /\ \E p \in players : is_folded[p]

\* C2: chip conservation at settlement.  Whenever a started hand reaches
\* ENDED, the chips of all seats equal the chips all seats had at the start
\* of the hand: every chip put in the pot is paid out, and none is created.
ChipConservationAtSettlement ==
    [][(stage # "ended" /\ stage' = "ended") =>
           Total(chips') = Total(starting_chips')]_vars

\* C3: side-pot partition.  When the layers have just been built by a call
\* or a raise, or by the showdown that follows it, their amounts add up to
\* the chips committed in the hand by all seats, the folded ones included.
SidePotPartition ==
    (/\ lastResult.op = "player_action"
     /\ lastResult.success
     /\ lastResult.message \in {"call", "raise"}) =>
        SumAmounts(side_pots) = Total(total_bet)

\* the distinct positive total bets of the seats, ascending
Levels == SortedSeq({total_bet[p] : p \in {q \in players : total_bet[q] > 0}})

AtLeast(cap) == {p \in players : total_bet[p] >= cap}

\* the layers as C4 words them
ExpectedLayers ==
    [i \in 1..Len(Levels) |->
        [cap |-> Levels[i],
         amount |-> (Levels[i] - (IF i = 1 THEN 0 ELSE Levels[i - 1]))
                        * Cardinality(AtLeast(Levels[i])),
         eligible |-> AtLeast(Levels[i])]]

\* seat 0 all-in for 50, seats 1 and 2 in for 200 each, nobody folded
ExampleTable ==
    [Cur EXCEPT !.players = {0, 1, 2},
                !.total_bet = [p \in Seats |-> IF p = 0 THEN 50 ELSE 200],
                !.is_folded = [p \in Seats |-> FALSE],
                !.is_active = [p \in Seats |-> TRUE]]

\* C4: side-pot construction.  With no folded seat the layers are exactly
\* one per distinct positive total bet, ascending, each of amount (cap minus
\* the cap below) times the number of seats that bet at least the cap, and
\* open to those seats; 50/200/200 gives {50, 150, all three} and
\* {200, 300, the two seats at 200}.
SidePotConstruction ==
    /\ (\A p \in players : ~is_folded[p]) => BuildSidePots(Cur) = ExpectedLayers
    /\ BuildSidePots(ExampleTable) =
          << [cap |-> 50, amount |-> 150, eligible |-> {0, 1, 2}],
             [cap |-> 200, amount |-> 300, eligible |-> {1, 2}] >>

\* three seats, nobody folded, one of them all-in below the others, and the
\* snapshot a call or raise has just taken shows the two layers
SidePotConstructionWitness ==
    /\ hands = 1
    /\ Cardinality(players) = 3
    /\ \A p \in players : ~is_folded[p]
    /\ \E p \in players :
          chips[p] = 0 /\ \E q \in players : total_bet[q] > total_bet[p]
    /\ lastResult.message \in {"call", "raise"}
    /\ Len(side_pots) = 2
    /\ side_pots = SidePotsSnapshot(ExpectedLayers)

\* C5: minimum raise.  For the seat asked to act, an accepted raise that
\* leaves it chips is to at least current bet + last raise increment, a raise
\* to less that would leave it chips is refused, and a raise to exactly that
\* minimum is accepted when the seat can pay for it.
MinimumRaise ==
    \A p \in players : AskedToAct(p) =>
        \A amount \in Amounts :
            LET r == PlayerActionResult(Cur, p, "raise", amount, NoStrength)
                minimum == current_bet + last_raise_increment
                call_amount == current_bet - player_bet[p]
                owed == amount - player_bet[p]
                all_in == owed >= chips[p]
            IN  /\ (r.success /\ ~all_in) =>
                       /\ amount >= minimum
                       /\ owed >= call_amount + last_raise_increment
                /\ (~all_in /\ amount < minimum) => ~r.success
                /\ (amount = minimum /\ chips[p] >= owed) => r.success

\* C6: raise-increment bookkeeping.  After an accepted raise to A that leaves
\* the seat chips the current bet is A and the last raise increment is A minus
\* the current bet before; an all-in raise leaves the increment alone; and
\* heads-up with a big blind of 10 the small blind's raise to 20 leaves the
\* increment 10, the big blind's re-raise to 40 leaves it 20, and the next
\* minimum raise is to 60.
RaiseBookkeeping ==
    /\ \A p \in players : AskedToAct(p) =>
          \A amount \in Amounts :
              LET r == PlayerActionResult(Cur, p, "raise", amount, NoStrength)
              IN  r.success =>
                      IF RaiseIsAllIn(Cur, p, amount)
                      THEN r.s.last_raise_increment = last_raise_increment
                      ELSE /\ r.s.current_bet = amount
                           /\ r.s.last_raise_increment = amount - current_bet
    /\ (JustStarted /\ hands = 1 /\ min_bet = 10 /\ Cardinality(players) = 2) =>
          LET sb == GetSmallBlindPosition(Cur)
              r1 == PlayerActionResult(Cur, sb, "raise", 20, NoStrength)
              r2 == PlayerActionResult(r1.s, Other(sb), "raise", 40, NoStrength)
          IN  /\ r1.success
              /\ r1.s.last_raise_increment = 10
              /\ r2.success
              /\ r2.s.last_raise_increment = 20
              /\ MinTargetTotalBet(r2.s, sb) = 60

\* the engine state as the caller of an operation can observe it
SameEngine(s) == s = Cur

\* C7: a refused player action changes nothing.  Whatever seat, action and
\* amount the call names, if the engine refuses it the engine state is what
\* it was, and the same call is refused again with the same reason.
RefusedActionChangesNothing ==
    \A u \in Seats : \A action \in Actions : \A amount \in Amounts :
        LET r == PlayerActionResult(Cur, u, action, amount, NoStrength)
            again == PlayerActionResult(r.s, u, action, amount, NoStrength)
        IN  ~r.success =>
                /\ SameEngine(r.s)
                /\ ~again.success
                /\ again.message = r.message
                /\ again.min_to = r.min_to

\* a raise below the minimum has just been refused in a betting street
RefusedActionChangesNothingWitness ==
    /\ lastResult.op = "player_action"
    /\ ~lastResult.success
    /\ lastResult.message = "raise below minimum"
    /\ stage \in Betting
    /\ hands = 1

\* C8: heads-up blinds.  With a big blind of 10 and two seats of 1000 chips,
\* start_game leaves the dealer as small blind with 995 chips and a bet of 5,
\* the other seat as big blind with 990 chips and a bet of 10, current bet 10,
\* last raise increment 10 and the small blind on turn; the small blind's
\* call leaves it 990 chips, the stage FLOP, the current bet 0 and the big
\* blind on turn.
HeadsUpBlinds ==
    (JustStarted /\ hands = 1 /\ min_bet = 10 /\ Cardinality(players) = 2) =>
        LET sb == dealer_position
            bb == Other(sb)
            r == PlayerActionResult(Cur, sb, "call", 0, NoStrength)
        IN  /\ sb \in players
            /\ chips[sb] = 995 /\ player_bet[sb] = 5
            /\ chips[bb] = 990 /\ player_bet[bb] = 10
            /\ current_bet = 10
            /\ last_raise_increment = 10
            /\ current_player_position = sb
            /\ r.success
            /\ r.s.chips[sb] = 990
            /\ r.s.stage = "flop"
            /\ r.s.current_bet = 0
            /\ r.s.current_player_position = bb

\* the seats C9 counts: connected, not spectating, not folded
Startable ==
    {p \in players : /\ p \in connected_players
                     /\ p \notin spectating_players
                     /\ ~is_folded[p]}

\* C9: start_game returns False and changes nothing when fewer than two
\* seats are connected, not spectating and not folded, or when one of those
\* seats has fewer chips than the big blind; it returns True exactly when
\* neither is the case.
StartGamePreconditions ==
    \A pick \in Picks :
        LET r == StartGameResult(Cur, pick)
            met == /\ Cardinality(Startable) >= 2
                   /\ \A p \in Startable : chips[p] >= min_bet
        IN  /\ r.success <=> met
            /\ ~r.success => SameEngine(r.s)

\* start_game has just refused a table with two startable seats because one
\* of them lost its stack in the hand before
StartGamePreconditionsWitness ==
    /\ lastResult.op = "start_game"
    /\ ~lastResult.success
    /\ hands >= 1
    /\ stage = "ended"
    /\ Cardinality(Startable) >= 2
    /\ \E p \in Startable : chips[p] < min_bet

\* C10: ENDED is a sink.  From a state whose stage is ENDED every step leaves
\* the stage ENDED, except a successful start_game, which makes it PREFLOP.
EndedIsSink ==
    [][stage = "ended" =>
          \/ stage' = "ended"
          \/ /\ hands' = hands + 1
             /\ lastResult'.op = "start_game"
             /\ lastResult'.success
             /\ stage' = "preflop"]_vars

\* a second hand has ended, and after it ended a seat's action or reveal was
\* accepted and a disconnect, timeout or roster change was handled
EndedIsSinkWitness ==
    /\ stage = "ended"
    /\ hands = MaxHands
    /\ late_actions >= 1
    /\ events >= 1

\* the seats that have not folded
NonFolded == {p \in players : ~is_folded[p]}

\* C11: instant win from any state.  In every state an operation returns in
\* during a started hand, with the stage PREFLOP, FLOP, TURN or RIVER, at
\* least two seats have not folded: had only one remained, the stage would
\* be ENDED.
InstantWinFromAnyState ==
    (hands >= 1 /\ stage \in Betting) => Cardinality(NonFolded) >= 2

\* the seats of engine state s that still must act: not folded, not all-in,
\* connected and not spectating
StillMustAct(s) ==
    {q \in s.players : /\ ~s.is_folded[q]
                       /\ ~(s.chips[q] = 0)
                       /\ q \in s.connected_players
                       /\ q \notin s.spectating_players}

\* every seat that still must act has matched the current bet, or, with
\* nothing bet, has acted in this street
StreetSettled(s) ==
    \A q \in StillMustAct(s) :
        IF s.current_bet > 0 THEN s.player_bet[q] = s.current_bet
        ELSE q \in s.acted_positions

FirstAfter(p, S) ==
    IF \E q \in S : q > p
    THEN CHOOSE q \in S : q > p /\ \A x \in S : x > p => q <= x
    ELSE CHOOSE q \in S : \A x \in S : q <= x

\* C13: turn rotation.  After an accepted action of the seat asked to act
\* that neither ends the hand nor the street, the seat on turn is the first
\* seat after the actor, in ascending position order and wrapping, among the
\* seats that are not folded, not all-in, connected and not spectating.
TurnRotation ==
    \A p \in players : AskedToAct(p) =>
        \A action \in Actions :
        \A amount \in (IF action = "raise" THEN Amounts ELSE {0}) :
            LET r == PlayerActionResult(Cur, p, action, amount, NoStrength)
            IN  (r.success /\ r.s.stage = stage /\ StillMustAct(r.s) # {}) =>
                    r.s.current_player_position = FirstAfter(p, StillMustAct(r.s))

\* the seats of engine state s that are neither folded nor all-in
NotFoldedNotAllIn(s) ==
    {q \in s.players : ~s.is_folded[q] /\ s.chips[q] > 0}

\* C14: first to act after the flop.  When an action of the seat asked to act
\* opens FLOP, TURN or RIVER betting with three or more seats not folded, the
\* seat on turn is the first seat after the dealer button, in ascending
\* position order and wrapping, among the seats neither folded nor all-in,
\* whether the dealer is still to act, folded or all-in.
FirstToActPostflop ==
    \A p \in players : AskedToAct(p) =>
        \A action \in Actions :
        \A amount \in (IF action = "raise" THEN Amounts ELSE {0}) :
            LET r == PlayerActionResult(Cur, p, action, amount, NoStrength)
            IN  (/\ r.success
                 /\ r.s.stage \in {"flop", "turn", "river"}
                 /\ r.s.stage # stage
                 /\ Cardinality({q \in r.s.players : ~r.s.is_folded[q]}) >= 3
                 /\ NotFoldedNotAllIn(r.s) # {}) =>
                    r.s.current_player_position =
                        FirstAfter(r.s.dealer_position, NotFoldedNotAllIn(r.s))

\* the blinds of a table of three or more seats, counted from the button
SmallBlindSeat == FirstAfter(dealer_position, players)
BigBlindSeat == FirstAfter(SmallBlindSeat, players)

\* C15: first to act before the flop.  When start_game has just succeeded on
\* a table of three or more seats, the seat on turn is the seat right after
\* the big blind, whatever the stacks, a big blind put all-in by its blind
\* included.
FirstToActPreflop ==
    (JustStarted /\ Cardinality(players) >= 3) =>
        current_player_position = FirstAfter(BigBlindSeat, players)

\* the smaller of two numbers
Least(a, b) == IF a < b THEN a ELSE b

\* C16: blind posting.  When start_game has just succeeded, the small blind
\* is the dealer on a table of two seats and the seat after the dealer
\* otherwise, the big blind is the other seat, respectively the seat after
\* the small blind; the small blind has paid the smaller of min_bet / 2
\* (rounded down) and its stack, the big blind the smaller of min_bet and its
\* stack, and the pot is the sum of the two payments.
BlindPosting ==
    JustStarted =>
        LET sb == IF Cardinality(players) = 2 THEN dealer_position
                  ELSE SmallBlindSeat
            bb == IF Cardinality(players) = 2 THEN Other(dealer_position)
                  ELSE BigBlindSeat
            sb_paid == Least(min_bet \div 2, starting_chips[sb])
            bb_paid == Least(min_bet, starting_chips[bb])
        IN  /\ sb \in players
            /\ player_bet[sb] = sb_paid
            /\ chips[sb] = starting_chips[sb] - sb_paid
            /\ player_bet[bb] = bb_paid
            /\ chips[bb] = starting_chips[bb] - bb_paid
            /\ pot = sb_paid + bb_paid

\* C17: dealer rotation.  Every successful start_game leaves the dealer
\* button on an occupied seat; when the button was on an occupied seat
\* before, it moves to the next occupied seat in ascending position order,
\* wrapping, so that it visits every seat of an unchanged table in turn.
DealerRotation ==
    [][(hands' = hands + 1) =>
          /\ dealer_position' \in players'
          /\ dealer_position \in players =>
                /\ dealer_position' = FirstAfter(dealer_position, players)
                /\ Cardinality(players) >= 2 => dealer_position' # dealer_position]_vars

\* the second hand of a table whose seats have not changed has just started
DealerRotationWitness ==
    /\ hands = MaxHands
    /\ JustStarted
    /\ events = 0
    /\ Cardinality(players) = 2

\* C18: run it out.  When an action of the seat asked to act ends the street
\* and every seat that has not folded is then all-in, the same call deals the
\* board up to five cards, runs the showdown and leaves the stage ENDED.
RunItOut ==
    \A p \in players : AskedToAct(p) =>
        \A action \in Actions :
        \A amount \in (IF action = "raise" THEN Amounts ELSE {0}) :
            LET applied == ProcessAction(Cur, p, action, amount)
                r == PlayerActionResult(Cur, p, action, amount, NoStrength)
            IN  (/\ applied.success
                 /\ applied.s.stage # "ended"
                 /\ r.s.stage # stage
                 /\ \A q \in applied.s.players :
                       ~applied.s.is_folded[q] => applied.s.chips[q] = 0) =>
                    /\ r.s.stage = "ended"
                    /\ r.s.community_cards = 5

\* a hand in which every seat left in went all-in before the flop has been
\* run out and settled
RunItOutWitness ==
    /\ hands = 1
    /\ stage = "ended"
    /\ community_cards = 5
    /\ Cardinality(NonFolded) >= 2
    /\ \A p \in NonFolded : total_bet[p] = starting_chips[p]
                            /\ player_bet[p] = total_bet[p]

\* how many seats lie between the dealer button of engine state s and seat q,
\* going round in ascending position order
StepsFromButton(s, q) == (q - s.dealer_position - 1) % Cardinality(Seats)

\* what C19 has seat q receive from one layer of engine state s
LayerShare(s, layer, strength, q) ==
    LET E == layer.eligible
        W == {w \in E : \A e \in E : strength[e] <= strength[w]}
        k == Cardinality(W)
        before == {w \in W : StepsFromButton(s, w) < StepsFromButton(s, q)}
    IN  IF Cardinality(E) = 1 THEN (IF q \in E THEN layer.amount ELSE 0)
        ELSE IF q \notin W THEN 0
        ELSE (layer.amount \div k)
             + (IF Cardinality(before) < layer.amount % k THEN 1 ELSE 0)

\* what C19 has seat q receive from all the layers of engine state s
Payout(s, strength, q) ==
    LET pots == BuildSidePots(s)
    IN  SumOver([i \in 1..Len(pots) |-> LayerShare(s, pots[i], strength, q)],
                1..Len(pots))

\* C19: showdown split of a layer.  When an action of the seat asked to act
\* brings the hand to the showdown, every layer is paid to its strongest
\* eligible seats: amount / k (rounded down) each, the amount mod k chips left
\* over one each to those winners in seat order from the seat after the dealer
\* button, folded dealer or not; a layer with one eligible seat goes to it.
ShowdownSplit ==
    \A p \in players : AskedToAct(p) =>
        \A action \in Actions :
        \A amount \in (IF action = "raise" THEN Amounts ELSE {0}) :
            ReachesShowdown(p, action, amount) =>
                \A strength \in Strengths :
                    LET applied == ProcessAction(Cur, p, action, amount).s
                        r == PlayerActionResult(Cur, p, action, amount, strength)
                    IN  BuildSidePots(applied) # << >> =>
                            \A q \in players :
                                r.s.chips[q] =
                                    applied.chips[q] + Payout(applied, strength, q)

\* the seats that are disconnected or marked spectating
Spectators == {q \in players : q \notin connected_players
                               \/ q \in spectating_players}

\* C20: spectating seats are excluded from settlement.  On every step that
\* settles the hand, by showdown or by instant win, a seat that is
\* disconnected or spectating is awarded no chips.
SpectatorsWinNothing ==
    [][(stage # "ended" /\ stage' = "ended") =>
          \A q \in Spectators : chips'[q] <= chips[q]]_vars

\* the seats of engine state s that are connected, not spectating and not
\* folded
OnlineEligible(s) ==
    {q \in s.players : /\ q \in s.connected_players
                       /\ q \notin s.spectating_players
                       /\ ~s.is_folded[q]}

\* C21: disconnect off turn.  During a hand, set_player_disconnected for a
\* connected seat that has not folded and is not on turn leaves that seat
\* spectating and folded when two or more connected, non-spectating,
\* non-folded seats remain, and leaves it not folded when only one remains.
DisconnectOffTurn ==
    (hands >= 1 /\ stage \in Betting) =>
        \A u \in players :
            (/\ ~is_folded[u]
             /\ u \in connected_players
             /\ u # current_player_position) =>
                LET t == SetPlayerDisconnected(Cur, u)
                IN  /\ Cardinality(OnlineEligible(t)) >= 2 =>
                           (u \in t.spectating_players /\ t.is_folded[u])
                    /\ Cardinality(OnlineEligible(t)) = 1 => ~t.is_folded[u]

\* C22: single-player 'end' decision.  In every state of a started hand in
\* which the single-player wait is armed, an accepted 'end' decision (the
\* expiry of the grace window is the same call) pays the whole pot to the one
\* connected, non-spectating, non-folded seat and to nobody else, leaves the
\* stage ENDED, the wait cleared and no seat on turn, and runs no showdown; an
\* accepted 'continue' clears the wait and changes nothing else.
SinglePlayerEndDecision ==
    (hands >= 1 /\ single_player_waiting # None) =>
        \A u \in players :
            LET e == HandleSinglePlayerDecision(Cur, u, "end")
                c == HandleSinglePlayerDecision(Cur, u, "continue")
            IN  /\ e.success =>
                       /\ \E w \in players :
                             /\ OnlineEligible(Cur) = {w}
                             /\ e.s.chips[w] = chips[w] + pot
                             /\ \A q \in players \ {w} : e.s.chips[q] = chips[q]
                       /\ e.s.stage = "ended"
                       /\ e.s.single_player_waiting = None
                       /\ e.s.current_player_position = None
                       /\ e.s.showdown_reveal = showdown_reveal
                       /\ e.s.community_cards = community_cards
                /\ c.success =>
                       c.s = [Cur EXCEPT !.single_player_waiting = None]

\* C23: reconnection disarms the wait.  With the wait armed during a hand,
\* when set_player_connected or handle_player_reconnect brings a disconnected
\* seat back so that two or more seats are connected, non-spectating and
\* non-folded, the wait is no longer armed when the operation returns, and
\* the expiry of the grace window afterwards changes nothing.
ReconnectionDisarmsWait ==
    (hands >= 1 /\ stage \in Betting /\ single_player_waiting # None) =>
        \A u \in players \cap disconnected_players :
        \A t \in {SetPlayerConnected(Cur, u), HandlePlayerReconnect(Cur, u)} :
            Cardinality(OnlineEligible(t)) >= 2 =>
                /\ t.single_player_waiting = None
                /\ GraceExpiry(t) = t

\* the sweep has acted for seat cp between the engine states s and t: it has
\* folded the seat, tagged it with an action or moved the turn away from it
SweepActed(s, t, cp) ==
    \/ t.is_folded[cp] # s.is_folded[cp]
    \/ t.last_action[cp] # s.last_action[cp]
    \/ t.current_player_position # cp

\* C24: timeout auto-action.  When auto_fold_timeout_players acts for the
\* seat on turn, connected or disconnected with its grace window over, a seat
\* whose bet equals the table's current bet is checked and stays in the hand,
\* and a seat is folded only if it owes a bet.
TimeoutAutoAction ==
    \A cp \in players : AskedToAct(cp) =>
        LET t == AutoFoldTimeoutPlayers(Cur, TRUE)
        IN  SweepActed(Cur, t, cp) =>
                /\ player_bet[cp] = current_bet =>
                       (~t.is_folded[cp] /\ t.last_action[cp] = "check")
                /\ t.is_folded[cp] => player_bet[cp] < current_bet

\* C25: liveness of a stalled hand.  Whatever positions the seats have, a
\* started hand that the players abandon reaches the stage ENDED, provided
\* the periodic loop keeps running the timeout sweep and the expiry of the
\* single-player wait.
StalledHandEnds == (hands >= 1) ~> (stage = "ended")

\* C26: stale requests are rejected.  On every step that takes the turn away
\* from the seat asked to act, or ends the hand, whether the step is an
\* action, a connectivity event, a sweep or a decision, a player_action call
\* of that seat processed after the step is refused and changes nothing.
StaleRequestsRejected ==
    [][\A u \in players :
          (AskedToAct(u) /\ (current_player_position' # u \/ stage' = "ended")) =>
              \A action \in Actions :
              \A amount \in (IF action = "raise" THEN Amounts ELSE {0}) :
                  LET r == PlayerActionResult(Cur', u, action, amount, NoStrength)
                  IN  ~r.success /\ r.s = Cur']_vars

MaxReveals == 3

\* voluntary_reveal called n times in a row by the same user
RECURSIVE RevealTimes(_, _, _)
RevealTimes(s, u, n) ==
    IF n = 0 THEN s ELSE RevealTimes(VoluntaryReveal(s, u).s, u, n - 1)

\* C28: voluntary_reveal returns False and changes nothing on a betting
\* street or for a user without a seat; once the hand is at SHOWDOWN/ENDED it
\* returns True for a seated user, and however many times that user calls it
\* the reveal list holds exactly one entry for the user, every other part
\* of the engine state being as it was.
VoluntaryRevealGatedIdempotent ==
    \A u \in Seats :
        LET r == VoluntaryReveal(Cur, u)
        IN  IF stage \in {"preflop", "flop", "turn", "river"} \/ u \notin players
            THEN ~r.success /\ r.s = Cur
            ELSE \A n \in 1..MaxReveals :
                    LET t == RevealTimes(Cur, u, n)
                    IN  /\ VoluntaryReveal(RevealTimes(Cur, u, n - 1), u).success
                        /\ t.showdown_reveal[u] = 1
                        /\ t = [Cur EXCEPT !.showdown_reveal[u] = 1]

\* a seat that folded before the showdown has revealed its cards afterwards
VoluntaryRevealWitness ==
    /\ stage = "ended"
    /\ lastResult.op = "voluntary_reveal"
    /\ lastResult.success
    /\ \E u \in players : is_folded[u] /\ showdown_reveal[u] = 1
    /\ \E v \in Seats \ players : TRUE

\* every card that has left the deck in the hand: hole cards seat by seat,
\* then the burned cards, then the community cards
RECURSIVE HoleCardsOf(_, _)
HoleCardsOf(c, seats) ==
    IF seats = << >> THEN << >>
    ELSE c.hole_cards[Head(seats)] \o HoleCardsOf(c, Tail(seats))

DrawnCards(c) ==
    HoleCardsOf(c, SortedSeq(DeckSeats)) \o c.burned \o c.community_cards

NoCardTwice(d) == \A i, j \in 1..Len(d) : i # j => d[i] # d[j]

\* C30: deck integrity.  Within a hand no card appears twice among the hole
\* cards of all seats, the burned cards and the community cards, and none of
\* them is still in the deck; the cards drawn are two for every seat dealt
\* in plus at most eight for the board and the burns, so that with at most
\* ten seats Deck.deal never runs out of cards.
DeckIntegrity ==
    LET drawn == DrawnCards(cards)
        board == Len(cards.burned) + Len(cards.community_cards)
    IN  /\ ~cards.failed
        /\ NoCardTwice(drawn \o cards.deck)
        /\ Len(drawn) = 2 * Cardinality(cards.dealt_in) + board
        /\ board <= 8
        /\ Len(drawn) + Len(cards.deck) = DeckSize
        /\ \A p \in DeckSeats :
              Len(cards.hole_cards[p]) = IF p \in cards.dealt_in THEN 2 ELSE 0

\* ten seats dealt in from a shuffled deck and the board dealt to the river
DeckIntegrityWitness ==
    /\ Cardinality(cards.dealt_in) = MaxPlayers
    /\ Len(cards.community_cards) = 5
    /\ Len(cards.burned) = 3
    /\ Len(cards.deck) = DeckSize - 28
    /\ cards.hole_cards[0] # << 0, 1 >>
    /\ cards.stage = "ended"

MaxRedeals == 2

\* the same deal except that the seats of V hold other cards, taken from
\* what was the undealt deck
OtherHoleCards(hc, V, d) ==
    [p \in Seats |-> IF p \in V /\ hc[p] # << >>
                     THEN << hc[p][1] + 2 * Cardinality(Seats) * d,
                             hc[p][2] + 2 * Cardinality(Seats) * d >>
                     ELSE hc[p]]

\* C29: hole-card confidentiality of snapshots.  While the stage is PREFLOP,
\* FLOP, TURN or RIVER the snapshot get_game_state builds for user U lists
\* U's own hole cards and none of any other seat, and it is the same
\* snapshot whatever cards the other seats hold: the winner entry, the
\* reveal list and every other field carry nothing of them.
HoleCardConfidentiality ==
    stage \in Betting =>
        \A U \in players :
            LET hc == SomeHoleCards(Cur)
                snap == GetGameState(Cur, hc, U)
            IN  /\ snap.players[U].dict.hole_cards = hc[U]
                /\ \A p \in players \ {U} :
                       snap.players[p].dict.hole_cards = << >>
                /\ \A V \in SUBSET (players \ {U}) : \A d \in 1..MaxRedeals :
                       GetGameState(Cur, OtherHoleCards(hc, V, d), U) = snap

\* the second hand at the table, after a hand that ended with a winner and
\* revealed cards: two seats hold cards, one of them has folded
HoleCardConfidentialityWitness ==
    /\ hands = 2
    /\ stage \in {"flop", "turn", "river"}
    /\ lastResult.op = "player_action"
    /\ \E U, p, f \in players :
          /\ U # p /\ f # U
          /\ hole_cards[U] = 2 /\ hole_cards[p] = 2 /\ hole_cards[f] = 2
          /\ ~is_folded[U] /\ ~is_folded[p] /\ is_folded[f]
          /\ GetGameState(Cur, SomeHoleCards(Cur), None).players[p]
                 .dict.hole_cards = << 2 * p, 2 * p + 1 >>

\* a connectivity event as one mutation: the user is marked disconnected
\* and, when it was the seat on turn, the turn has moved on
ConnectivityEvent(s, u) ==
    LET s1 == SetPlayerDisconnected(s, u)
    IN  IF Truthy(s1.current_player_position)
           /\ u \in s1.players /\ u = s1.current_player_position
        THEN MoveToNextPlayer(s1)
        ELSE s1

\* t is the engine state one whole mutation of one task leads to from s: a
\* connectivity event, a timeout sweep or grace expiry, a single-player
\* decision or check, the start of the hand, or a player action
OneMutation(s, t) ==
    \/ \E u \in s.players :
          \/ t = ConnectivityEvent(s, u)
          \/ t = HandlePlayerReconnect(s, u)
          \/ \E decision \in {"continue", "end"} :
                t = HandleSinglePlayerDecision(s, u, decision).s
    \/ \E grace_over \in BOOLEAN : t = AutoFoldTimeoutPlayers(s, grace_over)
    \/ t = GraceExpiry(s)
    \/ t = CheckSinglePlayerAndWait(s)
    \/ \E pick \in s.players : t = StartGameResult(s, pick).s
    \/ \E u \in s.players \cap {s.current_player_position} :
       \E action \in Actions :
       \E amount \in (IF action = "raise" THEN Amounts ELSE {0}) :
       \E strength \in Strengths :
          t = PlayerActionResult(s, u, action, amount, strength).s

----------------------------------------------------------------------------
(* C31 *)

\* the evaluation is the wheel: 5, 4, 3, 2 and an ace
IsWheel(hand) == ValuesOf(hand.cards) = {14, 2, 3, 4, 5}

\* C31: five cards A-2-3-4-5 are evaluated as a straight (a straight flush
\* when of one suit), and compare_hands(wheel, straight of the same type
\* whose top card is 6 or higher) is -1: the wheel is the lowest straight.
WheelIsLowestStraight ==
    evals.cmp # << >> =>
        LET hand1 == evals.player_hands[1]
            hand2 == evals.player_hands[2]
        IN  /\ IsWheel(hand1) => hand1.type \in {"straight", "straight_flush"}
            /\ ( /\ IsWheel(hand1)
                 /\ hand2.type = hand1.type
                 /\ ~IsWheel(hand2)
                 /\ MaxOf(ValuesOf(hand2.cards)) >= 6 )
               => evals.cmp[1] = -1

----------------------------------------------------------------------------
(* C32 *)

\* the place of a stage in GameStage
StageRank ==
    [ preflop |-> 0, flop |-> 1, turn |-> 2, river |-> 3, showdown |-> 4,
      ended |-> 5 ]

\* the streets that have been dealt when the board has n cards
StreetsDealt(n) == IF n = 0 THEN 0 ELSE n - 2

BoardInStep ==
    /\ stage = "preflop" => community_cards = 0
    /\ stage = "flop" => community_cards = 3
    /\ stage = "turn" => community_cards = 4
    /\ stage = "river" => community_cards = 5
    /\ stage = "ended" => community_cards \in {0, 3, 4, 5}
    /\ stage # "showdown"

\* a step that does not start a hand
StageForward ==
    hands' = hands =>
        /\ StageRank[stage'] >= StageRank[stage]
        /\ community_cards' >= community_cards
        /\ deck - deck' = (community_cards' - community_cards)
                            + (StreetsDealt(community_cards')
                                 - StreetsDealt(community_cards))

\* C32: within a hand the stage only moves forward along preflop, flop,
\* turn, river, showdown, ended; after every operation the board has 0 cards
\* in preflop, 3 in flop, 4 in turn, 5 in river and 0, 3, 4 or 5 in ended;
\* every street dealt takes one card more from the deck than it puts on the
\* board (the burn).
StageAndBoardInStep == []BoardInStep /\ [][StageForward]_vars

\* a hand that saw the flop and the turn and ended there, before the river
StageAndBoardInStepWitness ==
    /\ stage = "ended"
    /\ community_cards = 4
    /\ deck = DeckSize - 2 * Cardinality({p \in players : hole_cards[p] = 2}) - 6

----------------------------------------------------------------------------
(* C33 *)

\* C33: when a betting street starts, that is preflop right after a
\* successful start_game (the first hand or a later one) and flop, turn or
\* river right after the stage has advanced, acted_positions is empty and
\* last_raise_increment is min_bet; on flop, turn and river every seat's
\* current_bet and last_action are cleared and the table's current_bet is 0.
StreetStartSeeding ==
    [][ /\ hands' = hands + 1 =>
              /\ acted_positions' = {}
              /\ last_raise_increment' = min_bet
        /\ ( /\ hands' = hands
             /\ stage' # stage
             /\ stage' \in {"flop", "turn", "river"} ) =>
              /\ acted_positions' = {}
              /\ last_raise_increment' = min_bet
              /\ current_bet' = 0
              /\ \A p \in players' :
                    player_bet'[p] = 0 /\ last_action'[p] = "" ]_vars

----------------------------------------------------------------------------
(* C34 *)

\* what the layers of pots hold up to the total_bet of seat q
RECURSIVE AmountWithin(_, _, _)
AmountWithin(s, pots, q) ==
    IF pots = << >> THEN 0
    ELSE (IF ~s.is_folded[q] /\ s.total_bet[q] >= Head(pots).cap
          THEN Head(pots).amount ELSE 0)
         + AmountWithin(s, Tail(pots), q)

\* the step went through the showdown: the hole cards have been revealed
ShowdownStep ==
    /\ stage # "ended"
    /\ stage' = "ended"
    /\ showdown_reveal' # showdown_reveal

\* the chips seat q is paid in the step, beyond what it bet in it
PaidInStep(q) == (chips'[q] + total_bet'[q]) - (chips[q] + total_bet[q])

\* C34: at a showdown a seat is paid from a layer only if it has not folded
\* and its total_bet reaches the layer's cap: a folded seat is paid nothing,
\* and no seat is paid more than the layers up to its own total_bet hold.
LayerEligibility ==
    [][ ShowdownStep =>
          \A q \in players' :
             /\ is_folded'[q] => PaidInStep(q) = 0
             /\ BuildSidePots(Cur') # << >> =>
                   PaidInStep(q) <= AmountWithin(Cur', BuildSidePots(Cur'), q)
      ]_vars

\* a showdown is over where a seat was all-in for less than another seat
\* bet, a seat had folded with chips in the pot, and the short seat was paid
LayerEligibilityWitness ==
    /\ stage = "ended"
    /\ showdown_reveal # NoReveal
    /\ Len(side_pots) >= 2
    /\ \E q \in players : is_folded[q] /\ total_bet[q] > 0
    /\ \E q \in players :
          /\ ~is_folded[q]
          /\ total_bet[q] = side_pots[1].cap
          /\ chips[q] = side_pots[1].amount

----------------------------------------------------------------------------
(* C35 *)

\* C35: when player_action(u, 'fold') is accepted and leaves exactly one
\* seat that has not folded, that seat's chips grow by exactly the pot, the
\* stage is ENDED, no seat is on turn and showdown_reveal is as it was.
FoldEndsHand ==
    \A u \in players :
        LET r == PlayerActionResult(Cur, u, "fold", 0, NoStrength)
            left == {p \in r.s.players : ~r.s.is_folded[p]}
        IN  (r.success /\ Cardinality(left) = 1) =>
                /\ \A p \in left : r.s.chips[p] = chips[p] + pot
                /\ \A p \in players \ left : r.s.chips[p] = chips[p]
                /\ r.s.stage = "ended"
                /\ r.s.current_player_position = None
                /\ r.s.showdown_reveal = showdown_reveal

\* a fold has just ended a hand in which chips had been bet
FoldEndsHandWitness ==
    /\ lastResult = Returned("player_action", TRUE, "fold", 0)
    /\ stage = "ended"
    /\ current_player_position = None
    /\ Cardinality({p \in players : ~is_folded[p]}) = 1
    /\ showdown_reveal = NoReveal
    /\ pot > 0
    /\ \E p \in players : ~is_folded[p] /\ winner = p /\ chips[p] >= pot

----------------------------------------------------------------------------
(* C36 *)

\* side_pots is the snapshot of the layers the seats' total_bet give
SnapshotIsLive(s) == s.side_pots = SidePotsSnapshot(BuildSidePots(s))

\* the step put chips into the pot: a hand was started (blinds) or a call or
\* a raise was accepted
BetAffectingStep == hands' = hands + 1 \/ pot' > pot

\* C36: after every successful operation that moves chips into the pot
\* (start_game posting the blinds, a call, a call for less that puts the
\* seat all-in, a raise) side_pots is the snapshot of the layers computed
\* from the seats' total_bet at that moment, the layers the showdown pays.
LiveSidePotSnapshot == [][BetAffectingStep => SnapshotIsLive(Cur')]_vars

----------------------------------------------------------------------------
(* C37 *)

\* a hand has been started and is not settled yet
HandInProgress == hands >= 1 /\ stage \in Betting

\* the seats start_game dealt into the hand
DealtIn == {p \in players : hole_cards[p] = 2}

BetBookkeeping ==
    HandInProgress =>
        \A p \in DealtIn :
            /\ chips[p] >= 0
            /\ player_bet[p] <= total_bet[p]
            /\ chips[p] + total_bet[p] = starting_chips[p]

\* a step inside the hand: it neither starts the next hand nor settles this one
TotalBetGrows ==
    (HandInProgress /\ hands' = hands /\ stage' \in Betting) =>
        \A p \in DealtIn : p \in players' => total_bet'[p] >= total_bet[p]

----------------------------------------------------------------------------
(* C38 *)

\* next_stage goes to the showdown from the river, and from any street once
\* no seat of the hand can still act
GoesToShowdown(s) ==
    s.stage = "river" \/ {p \in GetActivePlayers(s) : ~IsAllIn(s, p)} = {}

\* C38: after any operation of the engine has returned the stage is not
\* showdown; a next_stage that reaches the showdown runs _determine_winner
\* and leaves the stage at ended, whatever the strengths of the hands, and a
\* next_stage that does not reach it leaves the stage at a betting street.
ShowdownNeverAtRest ==
    /\ stage # "showdown"
    /\ stage \in Betting =>
          IF GoesToShowdown(Cur)
          THEN \A strength \in Strengths :
                  NextStage(Cur, strength).stage = "ended"
          ELSE NextStage(Cur, NoStrength).stage \in Betting

\* a hand that was run out to the river with a seat all-in and settled at
\* the showdown
ShowdownNeverAtRestWitness ==
    /\ stage = "ended"
    /\ community_cards = 5
    /\ showdown_reveal # NoReveal
    /\ winner # None
    /\ pot > 0
    /\ \E p \in players : ~is_folded[p] /\ total_bet[p] = starting_chips[p]

----------------------------------------------------------------------------
(* C39 *)

\* C39: at a betting street, when a seat is on turn, that position holds a
\* player who has not folded and is not all-in.
SeatOnTurnCanAct ==
    (stage \in Betting /\ current_player_position # None) =>
        /\ current_player_position \in players
        /\ ~is_folded[current_player_position]
        /\ ~IsAllIn(Cur, current_player_position)

----------------------------------------------------------------------------
(* C40 *)

\* the chips on the table are where they were
SameChips(s, t) ==
    /\ t.chips = s.chips
    /\ t.player_bet = s.player_bet
    /\ t.total_bet = s.total_bet
    /\ t.pot = s.pot

\* C40: once the stage is ended, a player_action by any user and a timeout
\* sweep leave every seat's chips, current_bet and total_bet and the pot as
\* they are.
NoChipsMoveAfterEnd ==
    stage = "ended" =>
        /\ \A u \in players : \A action \in Actions : \A amount \in Amounts :
              SameChips(Cur, PlayerActionResult(Cur, u, action, amount,
                                                NoStrength).s)
        /\ \A grace_over \in BOOLEAN :
              SameChips(Cur, AutoFoldTimeoutPlayers(Cur, grace_over))

=============================================================================
